---------------------------- MODULE Spec2Model ----------------------------
(***************************************************************************)
(* A model of the mushroom-map pipeline: the raw, processed, GeoJSON and   *)
(* KML directories handled by image_processor.py, the GeoProcessor of      *)
(* geo_processor.py and the KMLProcessor of kml_processor.py.              *)
(*                                                                         *)
(* Conventions.  A calendar date 'dd.mm.yyyy' is a day number.  An image   *)
(* file is a record [w, h, dx, dy]: its pixel dimensions and the offset of *)
(* its top-left pixel in the frame it was rendered from, so that a crop is *)
(* visible in the file's content.  A geographic coordinate is an exact     *)
(* rational [n, d] in units of 1e-4 degree.  A directory is a function     *)
(* from the date in the file name to the file's content; the raw directory *)
(* is the sequence of its files in order of modification time.            *)
(***************************************************************************)
EXTENDS Integers, Sequences, FiniteSets, TLC

VARIABLES
    rawDir,        \* RAW_DIR: <<[date, w, h]>>, oldest modification time first
    processedDir,  \* PROCESSED_DIR: date -> image file
    geojsonDir,    \* GEOJSON_DIR: date -> feature collection
    kmlDir,        \* KML_DIR: date -> KML document
    image_bounds,  \* IMAGE_BOUNDS / GeoProcessor.image_bounds
    lastRun,       \* what the last run_job did (NoRun after any other step)
    streak,        \* "none" | "ok" | "broken": have all runs so far succeeded
    call           \* the last direct call of a function and what it returned

vars == <<rawDir, processedDir, geojsonDir, kmlDir, image_bounds, lastRun,
          streak, call>>

-----------------------------------------------------------------------------
(* Program constants (src/config.py, src/image_processor.py).              *)

MAX_SAVED_IMAGES == 4

CROP_PARAMS == [left |-> 173, right |-> 173, top |-> 282, bottom |-> 297]

\* CZECH_BOUNDS in units of 1e-4 degree.
CZECH_BOUNDS == [north |-> 510557, south |-> 485518,
                 east |-> 188658, west |-> 120964]

\* IMAGE_BOUNDS before the first image is processed: width and height None.
IMAGE_BOUNDS == [width |-> 0, height |-> 0]

\* IMAGE_WEIGHTS in tenths, newest frame first.
IMAGE_WEIGHTS == <<4, 3, 2, 1>>

HIGH_PROB_RGB == <<176, 221, 156>>

VERY_HIGH_PROB_RGB == <<112, 189, 143>>

\* RGB_TOLERANCE in percent.
RGB_TOLERANCE == 3

HIGHLIGHT_COLOR == <<0, 0, 255>>

-----------------------------------------------------------------------------
(* Bounds of the model.                                                    *)

MaxDate == 2

Dates == 1..MaxDate

None == [none |-> TRUE]

NoRun == [run |-> FALSE]

NoCall == [op |-> "none"]

EmptyDir == <<>>

\* f with key k bound to v (a file written at its final path).
Put(f, k, v) == [x \in (DOMAIN f) \cup {k} |-> IF x = k THEN v ELSE f[x]]

\* f restricted to the keys in K (the other files removed).
Keep(f, K) == [x \in (DOMAIN f) \cap K |-> f[x]]

-----------------------------------------------------------------------------
(* GeoProcessor (src/geo_processor.py): the coordinate mapper.             *)

\* int(): truncation toward zero of the rational n / d, d > 0.
Trunc(n, d) == IF n >= 0 THEN n \div d ELSE -((-n) \div d)

\* update_image_bounds with width and height exchanged.
update_image_bounds_swapped(image) == [width |-> image.h, height |-> image.w]

\* GeoProcessor.update_image_bounds.
update_image_bounds(image) == [width |-> image.w, height |-> image.h]

\* The guard of both conversions left out.
BoundsNotChecked(ib) == FALSE

\* The guard of both conversions: 'not width or not height'.
BoundsNotSet(ib) == ib.width = 0 \/ ib.height = 0

\* pixel_to_coordinates with the latitude growing with y.
pixel_to_coordinates_upward(ib, x, y) ==
    IF ib.width = 0 \/ ib.height = 0
    THEN [err |-> TRUE]
    ELSE [err |-> FALSE,
          lon |-> [n |-> CZECH_BOUNDS.west * ib.width
                         + x * (CZECH_BOUNDS.east - CZECH_BOUNDS.west),
                   d |-> ib.width],
          lat |-> [n |-> CZECH_BOUNDS.south * ib.height
                         + y * (CZECH_BOUNDS.north - CZECH_BOUNDS.south),
                   d |-> ib.height]]

\* GeoProcessor.pixel_to_coordinates: raises ValueError (err) while the
\* image bounds are not set, else (longitude, latitude) as exact rationals
\* west + (x / width) * lon_range and north - (y / height) * lat_range.
pixel_to_coordinates(ib, x, y) ==
    IF BoundsNotSet(ib)
    THEN [err |-> TRUE]
    ELSE LET lon_range == CZECH_BOUNDS.east - CZECH_BOUNDS.west
             lat_range == CZECH_BOUNDS.north - CZECH_BOUNDS.south
         IN  [err |-> FALSE,
              lon |-> [n |-> CZECH_BOUNDS.west * ib.width + x * lon_range,
                       d |-> ib.width],
              lat |-> [n |-> CZECH_BOUNDS.north * ib.height - y * lat_range,
                       d |-> ib.height]]

RECURSIVE GCD(_, _)
GCD(a, b) == IF b = 0 THEN a ELSE GCD(b, a % b)

\* PixelIndex with int() replaced by rounding to the nearest whole number.
PixelIndexRounded(n, d, exact, slip) ==
    IF n >= 0 THEN (2 * n + d) \div (2 * d) ELSE -((2 * (-n) + d) \div (2 * d))

\* int() of the float64 value computed for the exact position n / d, d > 0.
\* The float value lies within rounding error of n / d.  Where n / d is a
\* whole number other than 0 and the computation is not exact, the float
\* value may fall on either side of it, and int() then gives the whole
\* number or (slip) the one next to it toward zero.
PixelIndex(n, d, exact, slip) ==
    IF slip /\ ~ exact /\ n # 0 /\ n % d = 0
    THEN IF n > 0 THEN (n \div d) - 1 ELSE 1 - ((-n) \div d)
    ELSE Trunc(n, d)

\* Lines 80 and 84: int((off / range) * size) for the offset off / qd from
\* the west or north bound.  The quotient is exactly 1.0 at the far bound.
IntOf(off, qd, size, range, slip) ==
    PixelIndex(off * (size \div GCD(size, qd)), (qd \div GCD(size, qd)) * range,
               off = qd * range, slip)

\* GeoProcessor.coordinates_to_pixel on rationals lon, lat.  slipx and slipy
\* say where the float64 arithmetic falls short of a whole pixel position.
coordinates_to_pixel(ib, lon, lat, slipx, slipy) ==
    IF BoundsNotSet(ib)
    THEN [err |-> TRUE]
    ELSE [err |-> FALSE,
          x |-> IntOf(lon.n - CZECH_BOUNDS.west * lon.d, lon.d, ib.width,
                      CZECH_BOUNDS.east - CZECH_BOUNDS.west, slipx),
          y |-> IntOf(CZECH_BOUNDS.north * lat.d - lat.n, lat.d, ib.height,
                      CZECH_BOUNDS.north - CZECH_BOUNDS.south, slipy)]

\* image_processor.get_coordinates_for_pixel: any exception becomes None.
get_coordinates_for_pixel(ib, x, y) ==
    LET r == pixel_to_coordinates(ib, x, y)
    IN  IF r.err THEN None ELSE [lon |-> r.lon, lat |-> r.lat]

\* image_processor.get_pixel_for_coordinates: any exception becomes None.
get_pixel_for_coordinates(ib, lon, lat, slipx, slipy) ==
    LET r == coordinates_to_pixel(ib, lon, lat, slipx, slipy)
    IN  IF r.err THEN None ELSE [x |-> r.x, y |-> r.y]

-----------------------------------------------------------------------------
(* GeoProcessor: polygonization.  A region is a sequence of pixels <<x, y>>.*)

Range(s) == {s[i] : i \in DOMAIN s}

\* Twice the signed area of the triangle o, a, b.
Cross(o, a, b) ==
    (a[1] - o[1]) * (b[2] - o[2]) - (a[2] - o[2]) * (b[1] - o[1])

Collinear(S) == \A a, b, c \in S : Cross(a, b, c) = 0

\* p lies on the closed segment a b.
OnSegment(p, a, b) ==
    /\ Cross(a, b, p) = 0
    /\ (p[1] - a[1]) * (p[1] - b[1]) <= 0
    /\ (p[2] - a[2]) * (p[2] - b[2]) <= 0

\* The signs of the three edge tests do not disagree.
SameSide(d1, d2, d3) ==
    ~ ( (d1 < 0 \/ d2 < 0 \/ d3 < 0) /\ (d1 > 0 \/ d2 > 0 \/ d3 > 0) )

\* p lies in the closed triangle a b c, which is not flat.
InTriangle(p, a, b, c) ==
    /\ Cross(a, b, c) # 0
    /\ SameSide(Cross(a, b, p), Cross(b, c, p), Cross(c, a, p))

\* p lies in the convex hull of the points R.
InHullOf(p, R) ==
    \/ \E a, b \in R : OnSegment(p, a, b)
    \/ \E a, b, c \in R : InTriangle(p, a, b, c)

\* The extreme points of S: those outside the hull of the others.
HullVertices(S) == {p \in S : ~ InHullOf(p, S \ {p})}

\* The least point of V, by x and then y: where the walk of the hull starts.
\* (Qhull picks the starting vertex; only the cyclic order is specified.)
FirstVertex(V) ==
    CHOOSE p \in V : \A q \in V :
        p[1] < q[1] \/ (p[1] = q[1] /\ p[2] <= q[2])

\* The vertex after v in counterclockwise order: every other vertex lies
\* to the left of v -> u.
NextVertex(V, v) ==
    CHOOSE u \in V \ {v} : \A w \in V \ {v, u} : Cross(v, u, w) > 0

RECURSIVE WalkHull(_, _)
WalkHull(V, walked) ==
    IF Len(walked) = Cardinality(V)
    THEN walked
    ELSE WalkHull(V, Append(walked, NextVertex(V, walked[Len(walked)])))

\* region[hull.vertices]: the vertices V in counterclockwise order.
HullPoints(V) == [err |-> FALSE, points |-> WalkHull(V, <<FirstVertex(V)>>)]

\* The hull of the point set S: QhullError (err) unless S spans the plane.
ConvexHullOf(S) ==
    IF Cardinality(S) < 3 \/ Collinear(S)
    THEN [err |-> TRUE]
    ELSE HullPoints(HullVertices(S))

\* scipy.spatial.ConvexHull(region).
ConvexHull(region) == ConvexHullOf(Range(region))

\* Lines 265-267 left out: the ring as the hull gives it.
RingLeftOpen(geo_coords) == geo_coords

\* Lines 265-267: the first point appended unless the ring is closed.
CloseRing(geo_coords) ==
    IF geo_coords # <<>> /\ geo_coords[1] # geo_coords[Len(geo_coords)]
    THEN Append(geo_coords, geo_coords[1])
    ELSE geo_coords

\* Lines 260-270 on the converted hull points: an exception of
\* pixel_to_coordinates is caught by the except of line 272.
RingOf(conv) ==
    IF \E i \in DOMAIN conv : conv[i].err
    THEN <<>>
    ELSE CloseRing([i \in DOMAIN conv |-> <<conv[i].lon, conv[i].lat>>])

\* Lines 255-274: the hull mapped to a closed ring, [] on any exception.
PolygonOfHull(ib, hull) ==
    IF hull.err
    THEN <<>>
    ELSE RingOf([i \in DOMAIN hull.points |->
                    pixel_to_coordinates(ib, hull.points[i][1], hull.points[i][2])])

\* GeoProcessor.create_polygon_from_region.
create_polygon_from_region(ib, region) ==
    IF Len(region) < 3
    THEN <<>>
    ELSE PolygonOfHull(ib, ConvexHull(region))

-----------------------------------------------------------------------------
(* GeoProcessor.cluster_regions and the density rule of sklearn's DBSCAN.  *)

\* The arguments process_image_to_geojson passes: eps=30, min_samples=3.
Eps == 30

MinSamples == 3

RECURSIVE Concat(_)
Concat(seqs) == IF seqs = <<>> THEN <<>> ELSE Head(seqs) \o Concat(Tail(seqs))

Least(S) == CHOOSE x \in S : \A y \in S : x <= y

\* The numbers of S in increasing order.
RECURSIVE SortedSeq(_)
SortedSeq(S) ==
    IF S = {} THEN <<>> ELSE <<Least(S)>> \o SortedSeq(S \ {Least(S)})

Square(x) == x * x

\* The points within distance eps of point i, itself included.
Neighbours(pts, i, eps) ==
    {j \in DOMAIN pts :
        Square(pts[i][1] - pts[j][1]) + Square(pts[i][2] - pts[j][2])
            <= Square(eps)}

IsCore(pts, i, eps, min_samples) ==
    Cardinality(Neighbours(pts, i, eps)) >= min_samples

\* C with the neighbours of its core points.
Expand(pts, C, eps, min_samples) ==
    C \cup UNION {Neighbours(pts, i, eps) :
                     i \in {c \in C : IsCore(pts, c, eps, min_samples)}}

\* The points a cluster grows to from C.
RECURSIVE Grow(_, _, _, _)
GrowTo(pts, C, more, eps, min_samples) ==
    IF more = C THEN C ELSE Grow(pts, more, eps, min_samples)

Grow(pts, C, eps, min_samples) ==
    GrowTo(pts, C, Expand(pts, C, eps, min_samples), eps, min_samples)

\* DBSCAN's labelling, in index order: an unlabelled core point starts the
\* next cluster, which takes every point it reaches that no earlier cluster
\* took.  The result is the clusters in label order, as index sets.
RECURSIVE DbscanFrom(_, _, _, _, _, _)
NewCluster(pts, i, eps, min_samples, clusters, labelled, grown) ==
    DbscanFrom(pts, i + 1, eps, min_samples,
               Append(clusters, grown \ labelled), labelled \cup grown)

DbscanFrom(pts, i, eps, min_samples, clusters, labelled) ==
    IF i > Len(pts)
    THEN clusters
    ELSE IF i \in labelled \/ ~ IsCore(pts, i, eps, min_samples)
    THEN DbscanFrom(pts, i + 1, eps, min_samples, clusters, labelled)
    ELSE NewCluster(pts, i, eps, min_samples, clusters, labelled,
                    Grow(pts, {i}, eps, min_samples))

DBSCAN(pts, eps, min_samples) ==
    DbscanFrom(pts, 1, eps, min_samples, <<>>, {})

\* all_points[cluster_mask]: the points at the indices idx, in index order.
PointsAt(all_points, idx) == [j \in DOMAIN idx |-> all_points[idx[j]]]

\* The clusters with the points of label -1 as one more cluster.
PointsOfClustersWithNoise(all_points, clusters) ==
    [k \in 1..(Len(clusters) + 1) |->
        PointsAt(all_points,
                 SortedSeq(IF k <= Len(clusters)
                           THEN clusters[k]
                           ELSE DOMAIN all_points
                                   \ UNION {clusters[j] : j \in DOMAIN clusters}))]

\* Lines 226-232: the points of each cluster, in label order.
PointsOfClusters(all_points, clusters) ==
    [k \in DOMAIN clusters |-> PointsAt(all_points, SortedSeq(clusters[k]))]

\* Lines 207-236: the pooled points grouped by cluster label, noise dropped.
ClusterPoints(all_points, eps, min_samples) ==
    PointsOfClusters(all_points, DBSCAN(all_points, eps, min_samples))

\* cluster_regions without the shortcut of lines 203-205.
cluster_regions_always(regions, eps, min_samples) ==
    IF regions = <<>>
    THEN <<>>
    ELSE ClusterPoints(Concat(regions), eps, min_samples)

\* GeoProcessor.cluster_regions.
cluster_regions(regions, eps, min_samples) ==
    IF regions = <<>>
    THEN <<>>
    ELSE IF Len(regions) <= 3
    THEN regions
    ELSE ClusterPoints(Concat(regions), eps, min_samples)

-----------------------------------------------------------------------------
(* GeoProcessor.regions_to_geojson and KMLProcessor.                       *)

\* The feature of region i (1-based here; the id is the 0-based index).
Feature(polygon_coords, i, region, date_str) ==
    [id |-> i - 1, date |-> date_str, area_pixels |-> Len(region),
     mushroom_probability |-> "very_high", coordinates |-> polygon_coords]

\* Lines 310-324.  The two timestamps are left out.
FeatureCollection(features, date_str) ==
    [features |-> features,
     metadata |-> [date |-> date_str, total_features |-> Len(features)]]

\* Lines 292-307 for the regions at the indices kept.
Features(regions, poly, kept, date_str) ==
    [k \in DOMAIN kept |->
        Feature(poly[kept[k]], kept[k], regions[kept[k]], date_str)]

\* Lines 289-308: a feature for every region whose polygon has 4 points.
FeaturesOf(regions, poly, date_str) ==
    Features(regions, poly,
             SortedSeq({i \in DOMAIN regions : Len(poly[i]) >= 4}), date_str)

\* regions_to_geojson giving up on the batch at a region without a polygon.
regions_to_geojson_aborting(ib, regions, date_str) ==
    IF \E i \in DOMAIN regions : create_polygon_from_region(ib, regions[i]) = <<>>
    THEN FeatureCollection(<<>>, date_str)
    ELSE FeatureCollection(
             FeaturesOf(regions,
                        [i \in DOMAIN regions |->
                            create_polygon_from_region(ib, regions[i])],
                        date_str),
             date_str)

\* GeoProcessor.regions_to_geojson.
regions_to_geojson(ib, regions, date_str) ==
    FeatureCollection(
        FeaturesOf(regions,
                   [i \in DOMAIN regions |->
                       create_polygon_from_region(ib, regions[i])],
                   date_str),
        date_str)

\* KMLProcessor.create_kml_placemark.
create_kml_placemark(feature, feature_id) ==
    [name |-> feature_id + 1,
     description |-> [date |-> feature.date,
                      probability |-> feature.mushroom_probability,
                      area_pixels |-> feature.area_pixels,
                      id |-> feature.id],
     styleUrl |-> feature.mushroom_probability,
     coordinates |-> feature.coordinates]

\* KMLProcessor.geojson_to_kml: the document written for a collection.
geojson_to_kml(geojson_data) ==
    [name |-> geojson_data.metadata.date,
     total |-> geojson_data.metadata.total_features,
     styles |-> <<"very_high", "high", "default">>,
     placemarks |-> [i \in DOMAIN geojson_data.features |->
                        create_kml_placemark(geojson_data.features[i], i - 1)]]

\* KMLProcessor.process_geojson_to_kml: the document at mushroom_areas_<date>.kml.
process_geojson_to_kml(kdir, geojson_data, date_str) ==
    Put(kdir, date_str, geojson_to_kml(geojson_data))

\* Lines 359-384 writing nothing for a collection without features.
SaveGeojsonWithFeatures(gdir, kdir, ib, geojson_data, date_str, writeOk) ==
    IF ~ writeOk \/ geojson_data.features = <<>>
    THEN [ret |-> None, geojson |-> gdir, kml |-> kdir, image_bounds |-> ib,
          data |-> geojson_data]
    ELSE [ret |-> [path |-> date_str],
          geojson |-> Put(gdir, date_str, geojson_data),
          kml |-> process_geojson_to_kml(kdir, geojson_data, date_str),
          image_bounds |-> ib,
          data |-> geojson_data]

\* Lines 359-384: the collection saved, the KML derived when it has
\* features; None from the except branch when the file cannot be written.
SaveGeojson(gdir, kdir, ib, geojson_data, date_str, writeOk) ==
    IF ~ writeOk
    THEN [ret |-> None, geojson |-> gdir, kml |-> kdir, image_bounds |-> ib,
          data |-> geojson_data]
    ELSE [ret |-> [path |-> date_str],
          geojson |-> Put(gdir, date_str, geojson_data),
          kml |-> IF geojson_data.features # <<>>
                  THEN process_geojson_to_kml(kdir, geojson_data, date_str)
                  ELSE kdir,
          image_bounds |-> ib,
          data |-> geojson_data]

\* Lines 344-357 with the image bounds ib just set.
RegionsGeojson(ib, regions, date_str) ==
    IF Len(regions) = 0
    THEN regions_to_geojson(ib, <<>>, date_str)
    ELSE regions_to_geojson(ib, cluster_regions(regions, Eps, MinSamples),
                            date_str)

\* GeoProcessor.process_image_to_geojson.  regions is what
\* extract_highlighted_regions finds in the image; writeOk is whether the
\* GeoJSON file can be opened for writing.  The result carries the
\* directories and the image bounds afterwards.
process_image_to_geojson(gdir, kdir, image, regions, date_str, writeOk) ==
    SaveGeojson(gdir, kdir, update_image_bounds(image),
                RegionsGeojson(update_image_bounds(image), regions, date_str),
                date_str, writeOk)

-----------------------------------------------------------------------------
(* image_processor.py.                                                     *)

\* Lines 107-116: the crop saved over the file.
Cropped(image, left, top, right, bottom) ==
    [ret |-> [path |-> TRUE],
     image |-> [w |-> right - left, h |-> bottom - top,
                dx |-> image.dx + left, dy |-> image.dy + top]]

\* CropBox with the empty box let through (> for >=).
CropBoxOffByOne(image, left, top, right, bottom) ==
    IF left > right \/ top > bottom
    THEN [ret |-> None, image |-> image]
    ELSE IF right > image.w \/ bottom > image.h
    THEN [ret |-> None, image |-> image]
    ELSE Cropped(image, left, top, right, bottom)

\* Lines 98-105: the validation of the crop box.
CropBox(image, left, top, right, bottom) ==
    IF left >= right \/ top >= bottom
    THEN [ret |-> None, image |-> image]
    ELSE IF right > image.w \/ bottom > image.h
    THEN [ret |-> None, image |-> image]
    ELSE Cropped(image, left, top, right, bottom)

\* crop_processed_image: None and the file as it was when the crop box is
\* empty or exceeds the image, else the file overwritten by the crop.
crop_processed_image(image) ==
    CropBox(image, CROP_PARAMS.left, CROP_PARAMS.top,
            image.w - CROP_PARAMS.right, image.h - CROP_PARAMS.bottom)

\* _manage_image_quantity: the files sorted by modification time, the
\* oldest removed while there are more than MAX_SAVED_IMAGES.
RECURSIVE manage_image_quantity(_)
manage_image_quantity(images) ==
    IF Len(images) > MAX_SAVED_IMAGES
    THEN manage_image_quantity(Tail(images))
    ELSE images

RawDates(raw) == {raw[i].date : i \in DOMAIN raw}

\* The frames of raw without those of the date.
WithoutDate(raw, date) == SelectSeq(raw, LAMBDA f : f.date # date)

\* download_image saving over the stored frame of the date.
download_image_overwriting(raw, netOk, frame) ==
    IF ~ netOk
    THEN [ret |-> None, raw |-> raw]
    ELSE [ret |-> [path |-> frame.date],
          raw |-> manage_image_quantity(
                      Append(WithoutDate(raw, frame.date), frame))]

\* download_image: None when the request fails or a frame of that date is
\* stored, else the frame saved as the newest file and the quantity managed.
download_image(raw, netOk, frame) ==
    IF ~ netOk
    THEN [ret |-> None, raw |-> raw]
    ELSE IF frame.date \in RawDates(raw)
    THEN [ret |-> None, raw |-> raw]
    ELSE [ret |-> [path |-> frame.date],
          raw |-> manage_image_quantity(Append(raw, frame))]

Newest(S) == CHOOSE f \in S : \A g \in S : g.date <= f.date

\* sorted(raw_files_with_dates, key=date, reverse=True).
RECURSIVE SortNewestFirst(_)
SortNewestFirst(S) ==
    IF S = {} THEN <<>> ELSE <<Newest(S)>> \o SortNewestFirst(S \ {Newest(S)})

\* raw_files_sorted[:len(IMAGE_WEIGHTS)].
Window(raw_files_sorted) ==
    SubSeq(raw_files_sorted, 1,
           IF Len(raw_files_sorted) < Len(IMAGE_WEIGHTS)
           THEN Len(raw_files_sorted) ELSE Len(IMAGE_WEIGHTS))

\* _generate_geojson_with_correct_date: the GeoJSON files of other dates
\* removed first, then the image processed (every exception is swallowed).
generate_geojson_with_correct_date(gdir, kdir, image, date_str, regions, writeOk) ==
    process_image_to_geojson(Keep(gdir, {date_str}), kdir, image, regions,
                             date_str, writeOk)

\* A frame as the image file it is copied or rendered to.
AsImage(frame) == [w |-> frame.w, h |-> frame.h, dx |-> 0, dy |-> 0]

\* What create_comparison_map returns and leaves behind.
Outcome(ret, raised, crop, geo, pdir, gdir, kdir, ib) ==
    [ret |-> ret, raised |-> raised, crop |-> crop, geo |-> geo,
     processed |-> pdir, geojson |-> gdir, kml |-> kdir, image_bounds |-> ib]

\* The return of create_comparison_map after crop and geo processing.
Processed(date_str, crop, geo, pdir) ==
    Outcome([path |-> date_str], FALSE, crop.ret, geo.ret, pdir,
            geo.geojson, geo.kml, geo.image_bounds)

\* Lines 225-237: the existing file cropped when 'larger than expected'.
CropIfUncropped(test, expected_width, expected_height) ==
    IF test.w > expected_width \/ test.h > expected_height
    THEN crop_processed_image(test)
    ELSE [ret |-> [path |-> TRUE], image |-> test]

\* The file at the target path after the crop step, then lines 239-241,
\* 256-258 or 297-306 (cleanup: the other processed files are removed).
CropThenGeo(pdir, gdir, kdir, date_str, crop, cleanup, regions, writeOk) ==
    Processed(date_str, crop,
              generate_geojson_with_correct_date(gdir, kdir, crop.image,
                                                 date_str, regions, writeOk),
              IF cleanup
              THEN Keep(Put(pdir, date_str, crop.image), {date_str})
              ELSE Put(pdir, date_str, crop.image))

\* Lines 221-241: the processed file of the latest date exists.
ExistingMap(pdir, gdir, kdir, date_str, regions, writeOk) ==
    CropThenGeo(pdir, gdir, kdir, date_str,
                CropIfUncropped(pdir[date_str],
                    pdir[date_str].w - CROP_PARAMS.left - CROP_PARAMS.right,
                    pdir[date_str].h - CROP_PARAMS.top - CROP_PARAMS.bottom),
                FALSE, regions, writeOk)

\* Lines 252-258: one raw frame, copied, cropped and processed.
SingleMap(pdir, gdir, kdir, frame, regions, writeOk) ==
    CropThenGeo(pdir, gdir, kdir, frame.date,
                crop_processed_image(AsImage(frame)), FALSE, regions, writeOk)

\* Lines 267-277 raise when a frame of the window has other dimensions than
\* the newest: numpy cannot broadcast its mask onto the accumulator.
Broadcastable(window) ==
    \A i \in DOMAIN window :
        window[i].w = window[1].w /\ window[i].h = window[1].h

\* Lines 260-306: the composite of the window rendered on the newest frame,
\* saved, cropped, the other processed files removed, then processed.
ComparisonMap(pdir, gdir, kdir, ib, raw_files_sorted, regions, writeOk) ==
    IF ~ Broadcastable(Window(raw_files_sorted))
    THEN Outcome(None, TRUE, None, None, pdir, gdir, kdir, ib)
    ELSE CropThenGeo(pdir, gdir, kdir, raw_files_sorted[1].date,
                     crop_processed_image(AsImage(raw_files_sorted[1])),
                     TRUE, regions, writeOk)

\* Lines 212-306 on the dated raw files, newest first.
MapOf(raw_files_sorted, pdir, gdir, kdir, ib, regions, writeOk) ==
    IF raw_files_sorted[1].date \in DOMAIN pdir
    THEN ExistingMap(pdir, gdir, kdir, raw_files_sorted[1].date, regions, writeOk)
    ELSE IF Len(raw_files_sorted) = 1
    THEN SingleMap(pdir, gdir, kdir, raw_files_sorted[1], regions, writeOk)
    ELSE ComparisonMap(pdir, gdir, kdir, ib, raw_files_sorted, regions, writeOk)

\* create_comparison_map.
create_comparison_map(raw, pdir, gdir, kdir, ib, regions, writeOk) ==
    IF raw = <<>>
    THEN Outcome(None, FALSE, None, None, pdir, gdir, kdir, ib)
    ELSE MapOf(SortNewestFirst(Range(raw)), pdir, gdir, kdir, ib, regions,
               writeOk)

-----------------------------------------------------------------------------
(* image_processor.py: the comparison map rendered from the frames.  An    *)
(* image here is the sequence of its pixels, a pixel <<r, g, b>>.          *)

\* The band of InBand without its two ends.
InBandExclusive(c, t) ==
    /\ c * 100 > t * (100 - RGB_TOLERANCE)
    /\ c * 100 < t * (100 + RGB_TOLERANCE)

\* Channel c lies in [t * (1 - tol), t * (1 + tol)], in hundredths.
InBand(c, t) ==
    /\ c * 100 >= t * (100 - RGB_TOLERANCE)
    /\ c * 100 <= t * (100 + RGB_TOLERANCE)

\* _get_color_mask: 255 where all three channels are in band, else 0.
get_color_mask(image, target_rgb) ==
    [i \in DOMAIN image |->
        IF \A c \in 1..3 : InBand(image[i][c], target_rgb[c]) THEN 255 ELSE 0]

\* The frames the loop of line 267 visits: raw_files_sorted[:len(IMAGE_WEIGHTS)].
WindowSize(frames) ==
    IF Len(frames) < Len(IMAGE_WEIGHTS) THEN Len(frames) ELSE Len(IMAGE_WEIGHTS)

\* The surfaces are np.float32 arrays.  A float32 value v in [0, 2) is held
\* as the integer v * One, exactly: One is 5 * 2^28, so that the tenths of
\* IMAGE_WEIGHTS and the float32 values from 2^-5 up are whole numbers.
One == 1342177280

\* The spacing of the float32 values around v.
Quantum(v) ==
    IF v >= One THEN 160
    ELSE IF v >= One \div 2 THEN 80
    ELSE IF v >= One \div 4 THEN 40
    ELSE IF v >= One \div 8 THEN 20
    ELSE IF v >= One \div 16 THEN 10
    ELSE IF v >= One \div 32 THEN 5
    ELSE 1

\* lo or lo + q, the two float32 values around lo + r: the nearer, the even
\* one on a tie.
RoundTo(lo, r, q) ==
    IF 2 * r < q THEN lo
    ELSE IF 2 * r > q THEN lo + q
    ELSE IF (lo \div q) % 2 = 0 THEN lo ELSE lo + q

RoundWith(v, q) == RoundTo(v - (v % q), v % q, q)

\* The float32 value nearest to v: the result of a float32 operation.
F32(v) == RoundWith(v, Quantum(v))

\* IMAGE_WEIGHTS[i] of line 269.
Weight(k) == IMAGE_WEIGHTS[k] * (One \div 10)

\* Lines 267-277 for one class at pixel i: the accumulator after the first
\* k frames, each += mask / 255.0 * weight rounded to float32.
RECURSIVE Accumulate(_, _, _, _)
Accumulate(frames, target_rgb, i, k) ==
    IF k = 0
    THEN 0
    ELSE F32(Accumulate(frames, target_rgb, i, k - 1)
             + (get_color_mask(frames[k], target_rgb)[i] \div 255) * Weight(k))

\* high_prob_weights / very_high_prob_weights after the loop.
prob_weights(frames, target_rgb) ==
    [i \in DOMAIN frames[1] |->
        Accumulate(frames, target_rgb, i, WindowSize(frames))]

\* Line 280: np.maximum(1.0 - total_weights, 0.75) in float32.
AtLeast(v, floor) == IF v > floor THEN v ELSE floor

\* Line 280 with a floor of 0.5 in place of 0.75.
darken_factor_low_floor(total_weights) ==
    AtLeast(F32(One - total_weights), One \div 2)

darken_factor(total_weights) ==
    AtLeast(F32(One - total_weights), 3 * (One \div 4))

\* The greatest power of two up to n, 1 <= n <= 255: half the spacing of
\* the float32 values around n, in units of 2^-24.
HalfSpacing(n) == CHOOSE h \in {1, 2, 4, 8, 16, 32, 64, 128} : h <= n /\ n < 2 * h

\* The float32 product c - a / 2^24 as uint8: below is its floor and fr what
\* it lacks to below + 1, in units of 2^-24.  The product rounds to
\* below + 1 when that is the nearest float32 value.
Truncated(below, fr) ==
    IF fr = 0 THEN below + 1
    ELSE IF below >= 1 /\ fr <= HalfSpacing(below) THEN below + 1
    ELSE below

\* c * (1 - e / 2^24) in float32, cast to uint8.
DarkenedBy(c, a) == Truncated(c - (a \div 16777216) - 1, a % 16777216)

\* Lines 282-283 and 288 on channel c: c * factor in float32, clipped and
\* cast to uint8.  factor is in [0.75, 1], where float32 values are 80 apart.
Darkened(c, factor) == DarkenedBy(c, c * ((One - factor) \div 80))

\* Line 285: the 0.7 the float32 surface is compared with.
HighlightThreshold == F32(7 * (One \div 10))

\* FinalPixel highlighting from 0.7 on (>= for > in line 285).
FinalPixelFromThreshold(pixel, high, very_high) ==
    IF very_high >= HighlightThreshold
    THEN HIGHLIGHT_COLOR
    ELSE [c \in 1..3 |-> Darkened(pixel[c], darken_factor(F32(high + very_high)))]

\* Lines 279-288 at one pixel of the base image.
FinalPixel(pixel, high, very_high) ==
    IF very_high > HighlightThreshold
    THEN HIGHLIGHT_COLOR
    ELSE [c \in 1..3 |-> Darkened(pixel[c], darken_factor(F32(high + very_high)))]

\* Lines 260-288 from the two surfaces.
FinalMap(base_image, high_prob_weights, very_high_prob_weights) ==
    [image |-> [i \in DOMAIN base_image |->
                   FinalPixel(base_image[i], high_prob_weights[i],
                              very_high_prob_weights[i])],
     high |-> high_prob_weights,
     very_high |-> very_high_prob_weights,
     total |-> [i \in DOMAIN base_image |->
                   F32(high_prob_weights[i] + very_high_prob_weights[i])],
     darken |-> [i \in DOMAIN base_image |->
                    darken_factor(F32(high_prob_weights[i]
                                      + very_high_prob_weights[i]))]]

\* Composite with the only frame rendered like the newest of several.
CompositeRendered(frames) ==
    FinalMap(frames[1], prob_weights(frames, HIGH_PROB_RGB),
             prob_weights(frames, VERY_HIGH_PROB_RGB))

\* Lines 252-288: the composite of the frames, newest first: the only
\* frame copied, or the newest darkened and highlighted.
Composite(frames) ==
    IF Len(frames) = 1
    THEN [image |-> frames[1], high |-> None, very_high |-> None]
    ELSE FinalMap(frames[1], prob_weights(frames, HIGH_PROB_RGB),
                  prob_weights(frames, VERY_HIGH_PROB_RGB))

-----------------------------------------------------------------------------
(* Spec: the bot's handlers over the four directories (src/bot.py).        *)

\* The frames the source may publish: one that can be cropped (twice over),
\* one too narrow for the crop insets.
FrameSizes == {<<700, 1161>>, <<346, 1161>>}

Frames == {[date |-> d, w |-> sz[1], h |-> sz[2]] : d \in Dates, sz \in FrameSizes}

Triangle == << <<0, 0>>, <<1, 0>>, <<0, 1>> >>

\* What region extraction may find in a composite: nothing, or one region.
RunRegions == { <<>>, <<Triangle>> }

MaxOf(S) == CHOOSE x \in S : \A y \in S : y <= x

Init ==
    /\ rawDir = <<>>
    /\ processedDir = EmptyDir
    /\ geojsonDir = EmptyDir
    /\ kmlDir = EmptyDir
    /\ image_bounds = IMAGE_BOUNDS
    /\ lastRun = NoRun
    /\ streak = "none"
    /\ call = NoCall

\* run_job: download_image, then create_comparison_map.  The two calls run
\* without an await between them.  An exception of create_comparison_map
\* ends the job after the download has taken effect.  netOk is whether the
\* request for the image succeeds, frame the image it delivers.
RunJob(netOk, frame, regions, writeOk) ==
    \E d \in {download_image(rawDir, netOk, frame)} :
    \E c \in {create_comparison_map(d.raw, processedDir, geojsonDir, kmlDir,
                                    image_bounds, regions, writeOk)} :
        /\ rawDir' = d.raw
        /\ processedDir' = c.processed
        /\ geojsonDir' = c.geojson
        /\ kmlDir' = c.kml
        /\ image_bounds' = c.image_bounds
        /\ lastRun' = [run |-> TRUE, date |-> frame.date,
                       stored |-> d.ret # None, ret |-> c.ret,
                       raised |-> c.raised, crop |-> c.crop, geo |-> c.geo]
        /\ streak' = IF /\ streak # "broken"
                        /\ d.ret # None /\ c.ret # None
                        /\ c.crop # None /\ c.geo # None
                        /\ frame.date \in DOMAIN c.kml
                        /\ (rawDir = <<>> \/ frame.date > MaxOf(RawDates(rawDir)))
                     THEN "ok" ELSE "broken"
        /\ UNCHANGED call

\* get_latest_image_path(PROCESSED_DIR): the processed directory never holds
\* more than one file here, so the latest is the only one.
LatestProcessed == MaxOf(DOMAIN processedDir)

\* crop_command: crop_processed_image on the latest processed image.
CropCommand ==
    /\ DOMAIN processedDir # {}
    /\ LET crop == crop_processed_image(processedDir[LatestProcessed])
       IN  processedDir' = Put(processedDir, LatestProcessed, crop.image)
    /\ lastRun' = NoRun
    /\ UNCHANGED <<rawDir, geojsonDir, kmlDir, image_bounds, streak, call>>

\* A frame for the runs whose request fails: what it would have been is
\* of no consequence.
AnyFrame == CHOOSE f \in Frames : TRUE

Next ==
    \/ \E frame \in Frames, regions \in RunRegions, writeOk \in BOOLEAN :
          RunJob(TRUE, frame, regions, writeOk)
    \/ \E regions \in RunRegions, writeOk \in BOOLEAN :
          RunJob(FALSE, AnyFrame, regions, writeOk)
    \/ CropCommand

Spec == Init /\ [][Next]_vars


-----------------------------------------------------------------------------
(* Claims checked under Spec.                                              *)

\* Every file of dir is in dir2 with the same content.
Preserved(dir, dir2) ==
    \A d \in DOMAIN dir : d \in DOMAIN dir2 /\ dir2[d] = dir[d]

\* A stage of the run failed: the composite could not be built, the crop
\* was rejected, or the feature collection could not be written.
StageFailed(r) ==
    r.run /\ (r.raised \/ (r.ret # None /\ (r.crop = None \/ r.geo = None)))

\* C1: after any sequence of N >= 1 successful runs with increasing frame
\* dates (every run stored its frame, cropped its composite and wrote its
\* feature collection and KML), each of the processed, GeoJSON and KML
\* directories holds exactly one file, named with the date of the latest run.
C1_SingleCurrentArtifact ==
    streak = "ok" =>
        /\ DOMAIN processedDir = {MaxOf(RawDates(rawDir))}
        /\ DOMAIN geojsonDir = {MaxOf(RawDates(rawDir))}
        /\ DOMAIN kmlDir = {MaxOf(RawDates(rawDir))}

\* C2: a run of which a stage fails leaves every composite, feature
\* collection and KML file that existed before in place with its content,
\* and leaves no new file at a final path.
C2_FailedRunLeavesArtifacts ==
    [][ StageFailed(lastRun') =>
            /\ Preserved(processedDir, processedDir')
            /\ Preserved(geojsonDir, geojsonDir')
            /\ Preserved(kmlDir, kmlDir')
            /\ DOMAIN processedDir' \subseteq DOMAIN processedDir
            /\ DOMAIN geojsonDir' \subseteq DOMAIN geojsonDir
            /\ DOMAIN kmlDir' \subseteq DOMAIN kmlDir ]_vars


\* C21: create_comparison_map is idempotent when no newer frame has arrived:
\* a run that stores no frame while the composite of the latest frame date
\* exists leaves the persisted composites as they were, in dimensions and
\* content.
C21_RerunLeavesComposite ==
    [][ (/\ lastRun'.run
         /\ ~ lastRun'.stored
         /\ rawDir # <<>>
         /\ MaxOf(RawDates(rawDir)) \in DOMAIN processedDir)
        => processedDir' = processedDir ]_vars

\* The size of the frame cropped once.
CroppedOnce(frame) ==
    [width |-> frame.w - CROP_PARAMS.left - CROP_PARAMS.right,
     height |-> frame.h - CROP_PARAMS.top - CROP_PARAMS.bottom]

\* C22: every image create_comparison_map hands to process_image_to_geojson
\* (which sets the image bounds from it) has been cropped exactly once: it
\* has the size of the source frame less the crop insets, on the first run
\* for a date, on repeated runs and when the crop reports failure.
C22_GeoImageCroppedOnce ==
    (lastRun.run /\ lastRun.ret # None) =>
        image_bounds = CroppedOnce(Newest(Range(rawDir)))

\* The run built its composite, cropped it and wrote its feature collection.
Succeeded(r) ==
    r.run /\ ~ r.raised /\ r.ret # None /\ r.crop # None /\ r.geo # None

\* C15: after every successful run that writes the feature collection of a
\* date, the KML directory holds a document of that date derived from the
\* collection, also when the collection has no feature.
C15_KmlForEveryCollection ==
    Succeeded(lastRun) =>
        /\ lastRun.geo.path \in DOMAIN geojsonDir
        /\ lastRun.geo.path \in DOMAIN kmlDir
        /\ kmlDir[lastRun.geo.path] = geojson_to_kml(geojsonDir[lastRun.geo.path])

-----------------------------------------------------------------------------
(* SpecRaw: download_image on the raw directory, over more dates than the  *)
(* directory retains.                                                      *)

RawMaxDate == 6

RawFrames == {[date |-> d, w |-> w, h |-> 1161] : d \in 1..RawMaxDate, w \in {700, 346}}

InitRaw ==
    /\ rawDir = <<>>
    /\ processedDir = EmptyDir
    /\ geojsonDir = EmptyDir
    /\ kmlDir = EmptyDir
    /\ image_bounds = IMAGE_BOUNDS
    /\ lastRun = NoRun
    /\ streak = "none"
    /\ call = NoCall

\* download_image() with the request's outcome and the frame it delivers.
DownloadImage(netOk, frame) ==
    /\ rawDir' = download_image(rawDir, netOk, frame).raw
    /\ call' = [op |-> "download_image", netOk |-> netOk, frame |-> frame,
                before |-> rawDir,
                ret |-> download_image(rawDir, netOk, frame).ret]
    /\ UNCHANGED <<processedDir, geojsonDir, kmlDir, image_bounds, lastRun,
                   streak>>

NextRaw == \E netOk \in BOOLEAN, frame \in RawFrames : DownloadImage(netOk, frame)

SpecRaw == InitRaw /\ [][NextRaw]_vars

\* The n newest of the dates S.
NewestDates(S, n) == {d \in S : Cardinality({e \in S : e > d}) < n}

\* C4: whenever download_image stores a new frame, the frames retained
\* afterwards are the MAX_SAVED_IMAGES frames with the newest dates among
\* those retained before and the new one.
C4_EvictsOldestDate ==
    (call.op = "download_image" /\ call.ret # None) =>
        RawDates(rawDir) =
            NewestDates(RawDates(call.before) \cup {call.frame.date},
                        MAX_SAVED_IMAGES)

\* C20: at most one raw frame is retained per date: when download_image
\* obtains an image whose date already has a stored frame, it returns None
\* and leaves the raw directory as it was, the stored frame in place and no
\* frame evicted.
C20_OneFramePerDate ==
    /\ \A i, j \in DOMAIN rawDir : rawDir[i].date = rawDir[j].date => i = j
    /\ (/\ call.op = "download_image"
        /\ call.netOk
        /\ call.frame.date \in RawDates(call.before))
       => /\ call.ret = None
          /\ rawDir = call.before

\* An image of another width than the stored frame of its date arrives
\* while the directory is full.
C20_Witness ==
    /\ call.op = "download_image"
    /\ call.netOk
    /\ Len(call.before) = MAX_SAVED_IMAGES
    /\ \E i \in DOMAIN call.before :
          /\ call.before[i].date = call.frame.date
          /\ call.before[i].w # call.frame.w
    /\ call.ret = None
    /\ rawDir = call.before

-----------------------------------------------------------------------------
(* SpecCrop: crop_processed_image on a saved composite of any size around  *)
(* the crop insets.                                                        *)

\* Widths within CropSlack of left + right, heights within it of top + bottom.
CropSlack == 4

CropInputs ==
    {[w |-> CROP_PARAMS.left + CROP_PARAMS.right + i,
      h |-> CROP_PARAMS.top + CROP_PARAMS.bottom + j, dx |-> 0, dy |-> 0] :
        i \in (0 - CropSlack)..CropSlack, j \in (0 - CropSlack)..CropSlack}

InitCrop ==
    /\ rawDir = <<>>
    /\ processedDir \in {(1 :> image) : image \in CropInputs}
    /\ geojsonDir = EmptyDir
    /\ kmlDir = EmptyDir
    /\ image_bounds = IMAGE_BOUNDS
    /\ lastRun = NoRun
    /\ streak = "none"
    /\ call = NoCall

\* crop_processed_image(path) on the file in the processed directory.
CropProcessedImage ==
    /\ call = NoCall
    /\ processedDir' =
           Put(processedDir, 1, crop_processed_image(processedDir[1]).image)
    /\ call' = [op |-> "crop_processed_image", image |-> processedDir[1],
                ret |-> crop_processed_image(processedDir[1]).ret]
    /\ UNCHANGED <<rawDir, geojsonDir, kmlDir, image_bounds, lastRun, streak>>

NextCrop == CropProcessedImage

SpecCrop == InitCrop /\ [][NextCrop]_vars

\* The insets leave no pixel of the image.
InvalidCropGeometry(image) ==
    \/ CROP_PARAMS.left + CROP_PARAMS.right >= image.w
    \/ CROP_PARAMS.top + CROP_PARAMS.bottom >= image.h

\* C5: crop_processed_image returns None and leaves the file as it was for
\* every image with left + right >= w or top + bottom >= h, and succeeds,
\* leaving the (w - left - right) x (h - top - bottom) crop, for every other.
C5_CropValidity ==
    call.op = "crop_processed_image" =>
        IF InvalidCropGeometry(call.image)
        THEN call.ret = None /\ processedDir[1] = call.image
        ELSE /\ call.ret # None
             /\ processedDir[1].w =
                    call.image.w - CROP_PARAMS.left - CROP_PARAMS.right
             /\ processedDir[1].h =
                    call.image.h - CROP_PARAMS.top - CROP_PARAMS.bottom

\* A crop rejected on the boundary left + right = w, the file untouched.
C5_Witness ==
    /\ call.op = "crop_processed_image"
    /\ call.image.w = CROP_PARAMS.left + CROP_PARAMS.right
    /\ call.image.h > CROP_PARAMS.top + CROP_PARAMS.bottom
    /\ call.ret = None
    /\ processedDir[1] = call.image


-----------------------------------------------------------------------------
(* SpecComposite: the comparison map of lines 252-288 rendered from any    *)
(* frames, newest first.                                                   *)

MaxFrames == 5

\* The colours of a pixel: the two class colours, the edges of the band of
\* the high class, and a background.
Palette == {HIGH_PROB_RGB, VERY_HIGH_PROB_RGB, <<181, 221, 156>>,
            <<182, 221, 156>>, <<255, 255, 255>>}

\* One-pixel images: every step of the rendering is per pixel.
Images == {<<p>> : p \in Palette}

InitComposite ==
    /\ rawDir = <<>>
    /\ processedDir = EmptyDir
    /\ geojsonDir = EmptyDir
    /\ kmlDir = EmptyDir
    /\ image_bounds = IMAGE_BOUNDS
    /\ lastRun = NoRun
    /\ streak = "none"
    /\ \E n \in 1..MaxFrames :
          call \in {[op |-> "frames", frames |-> fs] : fs \in [1..n -> Images]}

\* The rendering of create_comparison_map on the frames drawn.
RenderComposite ==
    /\ call.op = "frames"
    /\ call' = [op |-> "composite", frames |-> call.frames,
                map |-> Composite(call.frames)]
    /\ UNCHANGED <<rawDir, processedDir, geojsonDir, kmlDir, image_bounds,
                   lastRun, streak>>

NextComposite == RenderComposite

SpecComposite == InitComposite /\ [][NextComposite]_vars

\* The number of frames of the window whose mask is nonzero at pixel i.
Occurrences(frames, target_rgb, i) ==
    Cardinality({k \in 1..WindowSize(frames) :
                    get_color_mask(frames[k], target_rgb)[i] # 0})

\* C3: for every class and cell, if the class mask is nonzero at the cell
\* in fewer than 2 frames of the window, the aggregated surface is 0 there.
C3_OverlapGate ==
    (call.op = "composite" /\ Len(call.frames) > 1) =>
        \A i \in DOMAIN call.frames[1] :
            /\ Occurrences(call.frames, HIGH_PROB_RGB, i) < 2
                  => call.map.high[i] = 0
            /\ Occurrences(call.frames, VERY_HIGH_PROB_RGB, i) < 2
                  => call.map.very_high[i] = 0


\* The distance between two float32 values.
Distance(a, b) == IF a >= b THEN a - b ELSE b - a

\* C12: at every pixel of a composite of several frames the darkening factor
\* is max(1 - total, 0.75) as float32 arithmetic gives it (the float32 value
\* nearest to it), total being the sum of the two class surfaces: it lies in
\* [0.75, 1] and is exactly 0.75 for every total of 0.25 or more.
C12_DarkenClamp ==
    (call.op = "composite" /\ Len(call.frames) > 1) =>
        \A i \in DOMAIN call.frames[1] :
            /\ call.map.total[i] = F32(call.map.high[i] + call.map.very_high[i])
            /\ call.map.darken[i] >= 3 * (One \div 4)
            /\ call.map.darken[i] <= One
            /\ call.map.total[i] >= One \div 4
                  => call.map.darken[i] = 3 * (One \div 4)
            /\ call.map.total[i] < One \div 4
                  => Distance(call.map.darken[i], One - call.map.total[i]) <= 40

\* A pixel darkened by less than the floor, and one with the whole weight.
C12_Witness ==
    /\ call.op = "composite"
    /\ Len(call.frames) = 5
    /\ call.map.total[1] > 0
    /\ call.map.total[1] < One \div 4
    /\ call.map.darken[1] > 3 * (One \div 4)
    /\ call.map.darken[1] < One

\* Every frame of the window matches a class: the total is 1, the factor 0.75.
C12_WitnessFull ==
    /\ call.op = "composite"
    /\ Len(call.frames) > 1
    /\ call.map.total[1] = One
    /\ call.map.darken[1] = 3 * (One \div 4)

\* The frames of the window that are very-high at pixel i.
VeryHighIn(frames, i) ==
    {k \in 1..WindowSize(frames) :
        \A c \in 1..3 :
            /\ 97 * VERY_HIGH_PROB_RGB[c] <= 100 * frames[k][i][c]
            /\ 100 * frames[k][i][c] <= 103 * VERY_HIGH_PROB_RGB[c]}

\* C23: in a composite of several frames a pixel is the highlight colour
\* exactly, undarkened, where the very-high surface strictly exceeds 0.7,
\* and the base frame's pixel times the darkening factor (as uint8)
\* everywhere else; a cell very-high only in the two newest frames is not
\* highlighted, one very-high in the three newest is.
C23_HighlightAboveThreshold ==
    (call.op = "composite" /\ Len(call.frames) > 1) =>
        \A i \in DOMAIN call.frames[1] :
            /\ call.map.very_high[i] > 7 * (One \div 10)
                  => call.map.image[i] = <<0, 0, 255>>
            /\ call.map.very_high[i] <= 7 * (One \div 10)
                  => call.map.image[i] =
                        [c \in 1..3 |-> Darkened(call.frames[1][i][c],
                                                 call.map.darken[i])]
            /\ VeryHighIn(call.frames, i) = {1, 2}
                  => call.map.image[i] # <<0, 0, 255>>
            /\ {1, 2, 3} \subseteq VeryHighIn(call.frames, i)
                  => call.map.image[i] = <<0, 0, 255>>

\* C24: when exactly one dated raw frame exists, the composite is that
\* frame's pixels verbatim, neither darkened nor recoloured (the crop comes
\* after).
C24_SingleFrameVerbatim ==
    (call.op = "composite" /\ Len(call.frames) = 1) =>
        call.map.image = call.frames[1]

\* The only frame has a pixel of the very-high class colour.
C24_Witness ==
    /\ call.op = "composite"
    /\ Len(call.frames) = 1
    /\ call.frames[1][1] = <<112, 189, 143>>
    /\ call.map.image[1] = <<112, 189, 143>>

\* A cell very-high in the two newest of three frames: darkened to three
\* quarters, not highlighted.
C23_Witness ==
    /\ call.op = "composite"
    /\ Len(call.frames) = 3
    /\ VeryHighIn(call.frames, 1) = {1, 2}
    /\ call.map.darken[1] = 3 * (One \div 4)
    /\ call.map.image[1] = <<84, 141, 107>>

-----------------------------------------------------------------------------
(* SpecConv: the two conversions and their entry points, called before and *)
(* after an image has been processed.                                      *)

MaxPixel == 3

Pixels == 0..MaxPixel

\* The sizes of the images processed.
ConvImages == {[w |-> 354, h |-> 582, dx |-> 0, dy |-> 0],
               [w |-> 8, h |-> 3, dx |-> 0, dy |-> 0]}

\* The pixels asked for: the first few and the far edges of the images.
PixelXs == Pixels \cup {image.w : image \in ConvImages}

PixelYs == Pixels \cup {image.h : image \in ConvImages}

Longitudes == {[n |-> v, d |-> 1] :
                  v \in {CZECH_BOUNDS.west, CZECH_BOUNDS.east, 154811, 171064}}

Latitudes == {[n |-> v, d |-> 1] :
                 v \in {CZECH_BOUNDS.north, CZECH_BOUNDS.south, 498037, 486557}}

InitConv ==
    /\ rawDir = <<>>
    /\ processedDir = EmptyDir
    /\ geojsonDir = EmptyDir
    /\ kmlDir = EmptyDir
    /\ image_bounds = IMAGE_BOUNDS
    /\ lastRun = NoRun
    /\ streak = "none"
    /\ call = NoCall

\* process_image_to_geojson on an image without regions: sets the bounds.
ProcessImage(image) ==
    /\ \E r \in {process_image_to_geojson(geojsonDir, kmlDir, image, <<>>, 1, TRUE)} :
          /\ geojsonDir' = r.geojson
          /\ kmlDir' = r.kml
          /\ image_bounds' = r.image_bounds
          /\ call' = [op |-> "process_image_to_geojson", bounds |-> image_bounds,
                      ret |-> r.ret]
    /\ UNCHANGED <<rawDir, processedDir, lastRun, streak>>

PixelToCoordinates(x, y) ==
    /\ call' = [op |-> "pixel_to_coordinates", bounds |-> image_bounds,
                x |-> x, y |-> y,
                ret |-> pixel_to_coordinates(image_bounds, x, y)]
    /\ UNCHANGED <<rawDir, processedDir, geojsonDir, kmlDir, image_bounds,
                   lastRun, streak>>

CoordinatesToPixel(lon, lat, slipx, slipy) ==
    /\ call' = [op |-> "coordinates_to_pixel", bounds |-> image_bounds,
                lon |-> lon, lat |-> lat,
                ret |-> coordinates_to_pixel(image_bounds, lon, lat,
                                             slipx, slipy)]
    /\ UNCHANGED <<rawDir, processedDir, geojsonDir, kmlDir, image_bounds,
                   lastRun, streak>>

GetCoordinatesForPixel(x, y) ==
    /\ call' = [op |-> "get_coordinates_for_pixel", bounds |-> image_bounds,
                ret |-> get_coordinates_for_pixel(image_bounds, x, y)]
    /\ UNCHANGED <<rawDir, processedDir, geojsonDir, kmlDir, image_bounds,
                   lastRun, streak>>

GetPixelForCoordinates(lon, lat, slipx, slipy) ==
    /\ call' = [op |-> "get_pixel_for_coordinates", bounds |-> image_bounds,
                ret |-> get_pixel_for_coordinates(image_bounds, lon, lat,
                                                  slipx, slipy)]
    /\ UNCHANGED <<rawDir, processedDir, geojsonDir, kmlDir, image_bounds,
                   lastRun, streak>>

\* coordinates_to_pixel on what pixel_to_coordinates returns for (x, y).
BackToPixel(ib, geo, slipx, slipy) ==
    IF geo.err
    THEN [err |-> TRUE]
    ELSE coordinates_to_pixel(ib, geo.lon, geo.lat, slipx, slipy)

RoundTrip(x, y, slipx, slipy) ==
    /\ call' = [op |-> "round_trip", bounds |-> image_bounds, x |-> x, y |-> y,
                ret |-> BackToPixel(image_bounds,
                                    pixel_to_coordinates(image_bounds, x, y),
                                    slipx, slipy)]
    /\ UNCHANGED <<rawDir, processedDir, geojsonDir, kmlDir, image_bounds,
                   lastRun, streak>>

NextConv ==
    \/ \E image \in ConvImages : ProcessImage(image)
    \/ \E x \in PixelXs, y \in PixelYs : PixelToCoordinates(x, y)
    \/ \E lon \in Longitudes, lat \in Latitudes, slipx \in BOOLEAN,
          slipy \in BOOLEAN : CoordinatesToPixel(lon, lat, slipx, slipy)
    \/ \E x \in Pixels, y \in Pixels : GetCoordinatesForPixel(x, y)
    \/ \E lon \in Longitudes, lat \in Latitudes, slipx \in BOOLEAN,
          slipy \in BOOLEAN : GetPixelForCoordinates(lon, lat, slipx, slipy)
    \/ \E x \in PixelXs, y \in PixelYs, slipx \in BOOLEAN, slipy \in BOOLEAN :
          RoundTrip(x, y, slipx, slipy)

SpecConv == InitConv /\ [][NextConv]_vars

\* C6: a conversion called while the image bounds are as constructed
\* (width and height None) yields no coordinate: the GeoProcessor methods
\* raise, the entry points of image_processor return None.
C6_ConversionBeforeBounds ==
    call.op \in {"pixel_to_coordinates", "coordinates_to_pixel",
                 "get_coordinates_for_pixel", "get_pixel_for_coordinates"}
      /\ call.bounds = IMAGE_BOUNDS
    => /\ call.op \in {"pixel_to_coordinates", "coordinates_to_pixel"}
            => call.ret = [err |-> TRUE]
       /\ call.op \in {"get_coordinates_for_pixel", "get_pixel_for_coordinates"}
            => call.ret = None

\* An entry point called before any image was processed answered None.
C6_Witness ==
    /\ call.op = "get_coordinates_for_pixel"
    /\ call.bounds = IMAGE_BOUNDS
    /\ call.ret = None
    /\ geojsonDir = EmptyDir

\* The rational q is the whole number v.
Equals(q, v) == q.n = v * q.d

\* p is a result of pixel_to_coordinates with the bounds set.
Converted(c) ==
    /\ c.op = "pixel_to_coordinates"
    /\ c.bounds.width # 0
    /\ c.bounds.height # 0

\* C13: with the dimensions set, pixel_to_coordinates maps (0, 0) to
\* (west, north) and (width, height) to (east, south), computes
\* west + x / width * (east - west) and north - y / height * (north - south),
\* and of two calls the one with the greater x has the greater or equal
\* longitude, the one with the greater y the smaller or equal latitude.
C13_PixelToCoordinatesLinear ==
    [][ Converted(call') =>
          /\ ~ call'.ret.err
          /\ call'.x = 0 => Equals(call'.ret.lon, CZECH_BOUNDS.west)
          /\ call'.y = 0 => Equals(call'.ret.lat, CZECH_BOUNDS.north)
          /\ call'.x = call'.bounds.width
                => Equals(call'.ret.lon, CZECH_BOUNDS.east)
          /\ call'.y = call'.bounds.height
                => Equals(call'.ret.lat, CZECH_BOUNDS.south)
          /\ call'.ret.lon.d = call'.bounds.width
          /\ call'.ret.lon.n = CZECH_BOUNDS.west * call'.bounds.width
                 + call'.x * (CZECH_BOUNDS.east - CZECH_BOUNDS.west)
          /\ call'.ret.lat.d = call'.bounds.height
          /\ call'.ret.lat.n = CZECH_BOUNDS.north * call'.bounds.height
                 - call'.y * (CZECH_BOUNDS.north - CZECH_BOUNDS.south)
          /\ (Converted(call) /\ call.bounds = call'.bounds)
                => /\ call.x <= call'.x => call.ret.lon.n <= call'.ret.lon.n
                   /\ call.y <= call'.y => call.ret.lat.n >= call'.ret.lat.n
      ]_vars

\* The far corner (width, height) of the cropped composite converted.
C13_Witness ==
    /\ call.op = "pixel_to_coordinates"
    /\ call.bounds = [width |-> 354, height |-> 582]
    /\ call.x = 354
    /\ call.y = 582
    /\ Equals(call.ret.lon, CZECH_BOUNDS.east)
    /\ Equals(call.ret.lat, CZECH_BOUNDS.south)


\* v lies in lo..hi.
Between(lo, v, hi) == lo <= v /\ v <= hi

\* index is the position n / d cut to a whole number, never rounded up: it
\* is at most the position and less than 1 below it, or exactly 1 below a
\* whole position that the float arithmetic fell short of.
Truncates(index, n, d) == index * d <= n /\ n <= (index + 1) * d

\* C14: for 0 <= x <= width and 0 <= y <= height, coordinates_to_pixel of
\* pixel_to_coordinates(x, y) differs from (x, y) by at most 1 in each axis;
\* and coordinates_to_pixel cuts the pixel position of a point east of west
\* and south of north to a whole number without rounding it up.
C14_RoundTripWithinOne ==
    /\ (/\ call.op = "round_trip"
        /\ call.bounds.width # 0 /\ call.bounds.height # 0
        /\ Between(0, call.x, call.bounds.width)
        /\ Between(0, call.y, call.bounds.height))
       => /\ ~ call.ret.err
          /\ Between(call.x - 1, call.ret.x, call.x + 1)
          /\ Between(call.y - 1, call.ret.y, call.y + 1)
    /\ (/\ call.op = "coordinates_to_pixel"
        /\ call.bounds.width # 0 /\ call.bounds.height # 0)
       => /\ ~ call.ret.err
          /\ Truncates(call.ret.x,
                       (call.lon.n - CZECH_BOUNDS.west) * call.bounds.width,
                       CZECH_BOUNDS.east - CZECH_BOUNDS.west)
          /\ Truncates(call.ret.y,
                       (CZECH_BOUNDS.north - call.lat.n) * call.bounds.height,
                       CZECH_BOUNDS.north - CZECH_BOUNDS.south)

\* A round trip that comes back one pixel short in x.
C14_Witness ==
    /\ call.op = "round_trip"
    /\ call.bounds = [width |-> 8, height |-> 3]
    /\ call.x = 3
    /\ call.y = 1
    /\ call.ret = [err |-> FALSE, x |-> 2, y |-> 1]

\* A position with a fraction above one half cut down, not rounded.
C14_WitnessTruncated ==
    /\ call.op = "coordinates_to_pixel"
    /\ call.bounds = [width |-> 8, height |-> 3]
    /\ call.lon = [n |-> 171064, d |-> 1]
    /\ call.ret.x = 5

-----------------------------------------------------------------------------
(* SpecRegions: regions_to_geojson, cluster_regions and                    *)
(* process_image_to_geojson applied to lists of regions.  A region keeps   *)
(* the shape of a connected component and is scaled down to a few pixels.  *)

MaxRegions == 4

Kinds == {"pair", "line", "tri", "ell", "box"}

\* The region of a kind with its corner at <<ax, 0>>: two points; three on
\* a line; a triangle; four points with three hull vertices; a square.
Shape(kind, ax) ==
    CASE kind = "pair" -> << <<ax, 0>>, <<ax + 1, 0>> >>
      [] kind = "line" -> << <<ax, 0>>, <<ax + 1, 0>>, <<ax + 2, 0>> >>
      [] kind = "tri"  -> << <<ax, 0>>, <<ax + 1, 0>>, <<ax, 1>> >>
      [] kind = "ell"  -> << <<ax, 0>>, <<ax + 1, 0>>, <<ax + 2, 0>>, <<ax, 1>> >>
      [] kind = "box"  -> << <<ax, 0>>, <<ax + 1, 0>>, <<ax, 1>>, <<ax + 1, 1>> >>

\* Where region k lies: the first two within eps of each other, the others
\* farther than eps from every other region.
Anchor(k) == IF k <= 2 THEN 3 * (k - 1) ELSE 40 * (k - 2)

RegionLists ==
    UNION {{[k \in 1..n |-> Shape(ks[k], Anchor(k))] : ks \in [1..n -> Kinds]} :
              n \in 0..MaxRegions}

\* The cropped composite the regions were found in.
RegionsImage == [w |-> 354, h |-> 582, dx |-> 173, dy |-> 282]

InitRegions ==
    /\ rawDir = <<>>
    /\ processedDir = EmptyDir
    /\ geojsonDir = EmptyDir
    /\ kmlDir = EmptyDir
    /\ image_bounds = IMAGE_BOUNDS
    /\ lastRun = NoRun
    /\ streak = "none"
    /\ call \in {[op |-> "regions", regions |-> r] : r \in RegionLists}

\* GeoProcessor.regions_to_geojson on the regions, before or after the
\* image bounds were set.
RegionsToGeojson(ib) ==
    /\ call.op = "regions"
    /\ call' = [op |-> "regions_to_geojson", regions |-> call.regions,
                bounds |-> ib, ret |-> regions_to_geojson(ib, call.regions, 1)]
    /\ UNCHANGED <<rawDir, processedDir, geojsonDir, kmlDir, image_bounds,
                   lastRun, streak>>

\* GeoProcessor.cluster_regions with the arguments of line 353.
ClusterRegions ==
    /\ call.op = "regions"
    /\ call' = [op |-> "cluster_regions", regions |-> call.regions,
                ret |-> cluster_regions(call.regions, Eps, MinSamples)]
    /\ UNCHANGED <<rawDir, processedDir, geojsonDir, kmlDir, image_bounds,
                   lastRun, streak>>

\* GeoProcessor.process_image_to_geojson on an image with these regions.
ProcessImageToGeojson(writeOk) ==
    /\ call.op = "regions"
    /\ \E r \in {process_image_to_geojson(geojsonDir, kmlDir, RegionsImage,
                                          call.regions, 1, writeOk)} :
          /\ geojsonDir' = r.geojson
          /\ kmlDir' = r.kml
          /\ image_bounds' = r.image_bounds
          /\ call' = [op |-> "process_image_to_geojson", regions |-> call.regions,
                      writeOk |-> writeOk, ret |-> r.ret]
    /\ UNCHANGED <<rawDir, processedDir, lastRun, streak>>

NextRegions ==
    \/ \E ib \in {IMAGE_BOUNDS, update_image_bounds(RegionsImage)} :
          RegionsToGeojson(ib)
    \/ ClusterRegions
    \/ \E writeOk \in BOOLEAN : ProcessImageToGeojson(writeOk)

SpecRegions == InitRegions /\ [][NextRegions]_vars

\* C7: when extraction yields no region and the file can be written,
\* process_image_to_geojson returns the path of a collection for the run
\* date with zero features and total_features = 0.
C7_EmptyCollection ==
    (call.op = "process_image_to_geojson" /\ call.regions = <<>> /\ call.writeOk)
    => /\ call.ret = [path |-> 1]
       /\ 1 \in DOMAIN geojsonDir
       /\ geojsonDir[1].features = <<>>
       /\ geojsonDir[1].metadata = [date |-> 1, total_features |-> 0]

C7_Witness ==
    /\ call.op = "process_image_to_geojson"
    /\ call.regions = <<>>
    /\ call.writeOk
    /\ call.ret # None
    /\ DOMAIN geojsonDir = {1}

\* Polygonization of the region fails: fewer than 3 points, collinear
\* points, or a conversion that raises.
PolygonizationFails(ib, region) ==
    \/ Len(region) < 3
    \/ Collinear(Range(region))
    \/ ib.width = 0
    \/ ib.height = 0

\* The indices of the regions that polygonize, in input order.
Polygonized(ib, regions) ==
    SortedSeq({i \in DOMAIN regions : ~ PolygonizationFails(ib, regions[i])})

\* features are one per index of kept, in order, each with the 0-based index
\* and the number of points of its region.
OnePerRegion(features, regions, kept) ==
    /\ Len(features) = Len(kept)
    /\ \A k \in DOMAIN kept :
          /\ features[k].id = kept[k] - 1
          /\ features[k].area_pixels = Len(regions[kept[k]])

\* C8: regions_to_geojson skips the regions whose polygonization fails and
\* yields exactly one feature for every other region, in input order, with
\* area_pixels the number of points of the region.
C8_SkipsFailedRegions ==
    call.op = "regions_to_geojson"
    => OnePerRegion(call.ret.features, call.regions,
                    Polygonized(call.bounds, call.regions))

\* A batch in which a region that fails is followed by one that succeeds.
C8_Witness ==
    /\ call.op = "regions_to_geojson"
    /\ Len(call.regions) >= 2
    /\ PolygonizationFails(call.bounds, call.regions[1])
    /\ ~ PolygonizationFails(call.bounds, call.regions[2])
    /\ Len(call.ret.features) >= 1
    /\ call.ret.features[1].id = 1

\* C18: the ids of the features built by regions_to_geojson are 0, 1, ...,
\* n - 1 in order of the features, also when some regions yield no feature.
C18_SequentialIds ==
    call.op = "regions_to_geojson" =>
        \A k \in DOMAIN call.ret.features : call.ret.features[k].id = k - 1

\* The ring is closed and has at least 4 pairs.
ClosedRing(ring) == Len(ring) >= 4 /\ ring[1] = ring[Len(ring)]

\* The collections of the state: the one just returned and those on disk.
Collections ==
    (IF call.op = "regions_to_geojson" THEN {call.ret} ELSE {})
    \cup {geojsonDir[d] : d \in DOMAIN geojsonDir}

\* The features made from region i of the batch.
FeaturesFrom(features, i) ==
    {k \in DOMAIN features : features[k].id = i - 1}

\* C9: every feature of every collection has a closed ring of at least 4
\* pairs; a region of fewer than 3 points yields no feature; a region of
\* exactly 3 non-collinear points yields a ring of exactly 4 pairs.
C9_RingShape ==
    /\ \A c \in Collections : \A k \in DOMAIN c.features :
          ClosedRing(c.features[k].coordinates)
    /\ call.op = "regions_to_geojson"
       => \A i \in DOMAIN call.regions :
             /\ Len(call.regions[i]) < 3
                   => FeaturesFrom(call.ret.features, i) = {}
             /\ (/\ Len(call.regions[i]) = 3
                 /\ ~ Collinear(Range(call.regions[i]))
                 /\ ~ (call.bounds.width = 0 \/ call.bounds.height = 0))
                   => /\ FeaturesFrom(call.ret.features, i) # {}
                      /\ \A k \in FeaturesFrom(call.ret.features, i) :
                            Len(call.ret.features[k].coordinates) = 4

\* A pair and a triangle in one batch: one feature, its ring of 4 pairs.
C9_Witness ==
    /\ call.op = "regions_to_geojson"
    /\ Len(call.regions) = 2
    /\ Len(call.regions[1]) = 2
    /\ Len(call.regions[2]) = 3
    /\ Len(call.ret.features) = 1
    /\ Len(call.ret.features[1].coordinates) = 4

\* C10: cluster_regions given 3 or fewer regions returns them unmodified.
C10_FewRegionsUnclustered ==
    (call.op = "cluster_regions" /\ Len(call.regions) <= 3)
    => call.ret = call.regions

\* Three regions returned as they are, which DBSCAN would have regrouped.
C10_Witness ==
    /\ call.op = "cluster_regions"
    /\ Len(call.regions) = 3
    /\ call.ret = call.regions
    /\ ClusterPoints(Concat(call.regions), Eps, MinSamples) # call.regions


-----------------------------------------------------------------------------
(* SpecMask: _get_color_mask on one-pixel images around the target colours.*)

MaskSlack == 6

\* The channel values within MaskSlack of t.
Near(t) == {c \in 0..255 : c - t <= MaskSlack /\ t - c <= MaskSlack}

\* The class colours and a colour with a channel of 0.
MaskTargets == {HIGH_PROB_RGB, VERY_HIGH_PROB_RGB, <<0, 189, 143>>}

InitMask ==
    /\ rawDir = <<>>
    /\ processedDir = EmptyDir
    /\ geojsonDir = EmptyDir
    /\ kmlDir = EmptyDir
    /\ image_bounds = IMAGE_BOUNDS
    /\ lastRun = NoRun
    /\ streak = "none"
    /\ \E t \in MaskTargets :
          call \in {[op |-> "pixel", target |-> t, image |-> << <<r, g, b>> >>] :
                       r \in Near(t[1]), g \in Near(t[2]), b \in Near(t[3])}

\* _get_color_mask(image, target_rgb).
GetColorMask ==
    /\ call.op = "pixel"
    /\ call' = [op |-> "get_color_mask", target |-> call.target,
                image |-> call.image,
                ret |-> get_color_mask(call.image, call.target)]
    /\ UNCHANGED <<rawDir, processedDir, geojsonDir, kmlDir, image_bounds,
                   lastRun, streak>>

NextMask == GetColorMask

SpecMask == InitMask /\ [][NextMask]_vars

\* t * (1 - tol) <= c <= t * (1 + tol) for the tolerance of 3 percent.
WithinTolerance(c, t) == 97 * t <= 100 * c /\ 100 * c <= 103 * t

\* C11: a pixel is in the mask if and only if each of its channels lies in
\* the inclusive band of the target channel; for the target (176, 221, 156)
\* the pixels (176, 221, 156) and (181, 221, 156) are in the mask and
\* (182, 221, 156) is not; a target channel of 0 matches only the value 0.
C11_MaskBand ==
    call.op = "get_color_mask" =>
        /\ call.ret[1] \in {0, 255}
        /\ call.ret[1] = 255
              <=> \A c \in 1..3 : WithinTolerance(call.image[1][c], call.target[c])
        /\ (call.target = <<176, 221, 156>>
              /\ call.image[1] \in {<<176, 221, 156>>, <<181, 221, 156>>})
              => call.ret[1] = 255
        /\ (call.target = <<176, 221, 156>> /\ call.image[1] = <<182, 221, 156>>)
              => call.ret[1] = 0
        /\ \A c \in 1..3 :
              (call.target[c] = 0 /\ call.ret[1] = 255) => call.image[1][c] = 0

\* The pixel on the upper end of the band of the red channel is in the mask.
C11_Witness ==
    /\ call.op = "get_color_mask"
    /\ call.target = <<176, 221, 156>>
    /\ call.image[1] = <<181, 221, 156>>
    /\ call.ret[1] = 255

-----------------------------------------------------------------------------
(* GeoProcessor.get_region_info: the region of a collection at a point.    *)

MaxInfoRegions == 2

QueryMax == 6

\* Twice the pixel position of the rational coordinate q whose offset from
\* the west or north bound is off / q.d, for ring coordinates over size.
HalfPixel(off, qd, size, range) ==
    (2 * (size \div GCD(size, qd)) * off) \div ((qd \div GCD(size, qd)) * range)

\* The point (lon, lat) on the grid of half pixels of the image the ring was
\* made from.  The map is affine and one to one, so containment in a polygon
\* is the same on the grid as in degrees; the coordinates of the rings and
\* of the points asked about are whole numbers there.
GridPoint(lon, lat, w, h) ==
    << HalfPixel(lon.n - CZECH_BOUNDS.west * lon.d, lon.d, w,
                 CZECH_BOUNDS.east - CZECH_BOUNDS.west),
       HalfPixel(CZECH_BOUNDS.north * lat.d - lat.n, lat.d, h,
                 CZECH_BOUNDS.north - CZECH_BOUNDS.south) >>

\* The ring on the grid of its own denominators.
GridRing(ring) ==
    [i \in DOMAIN ring |->
        GridPoint(ring[i][1], ring[i][2], ring[1][1].d, ring[1][2].d)]

\* (lon, lat) on the grid of the ring.
GridQuery(lon, lat, ring) == GridPoint(lon, lat, ring[1][1].d, ring[1][2].d)

\* The edge a b crosses the ray from p toward greater x.
CrossesRay(p, a, b) ==
    /\ (a[2] > p[2]) # (b[2] > p[2])
    /\ IF b[2] > a[2] THEN Cross(a, b, p) > 0 ELSE Cross(a, b, p) < 0

\* shapely's Polygon(ring).contains(Point(p)): p is in the interior, that is
\* not on the ring and to the inside by the count of edges its ray crosses.
Contains(ring, p) ==
    /\ \A i \in 1..(Len(ring) - 1) : ~ OnSegment(p, ring[i], ring[i + 1])
    /\ Cardinality({i \in 1..(Len(ring) - 1) :
                       CrossesRay(p, ring[i], ring[i + 1])}) % 2 = 1

\* feature['properties'] of a feature.
Properties(feature) ==
    [id |-> feature.id, date |-> feature.date,
     area_pixels |-> feature.area_pixels,
     mushroom_probability |-> feature.mushroom_probability]

\* Lines 405-411: the indices of the features whose polygon contains the
\* point.
Hits(features, lon, lat) ==
    {k \in DOMAIN features :
        Contains(GridRing(features[k].coordinates),
                 GridQuery(lon, lat, features[k].coordinates))}

\* get_region_info answering with the last feature that contains the point.
get_region_info_last(lon, lat, file) ==
    IF file = None
    THEN None
    ELSE IF Hits(file.features, lon, lat) = {}
         THEN [found |-> FALSE, coordinates |-> <<lon, lat>>]
         ELSE [found |-> TRUE,
               properties |->
                   Properties(file.features[MaxOf(Hits(file.features, lon, lat))]),
               coordinates |-> <<lon, lat>>]

\* GeoProcessor.get_region_info on the content of the file, None for a file
\* that cannot be opened or parsed (the except of lines 421-423).  The rings
\* of a collection written by regions_to_geojson have at least 4 points, so
\* Polygon() does not raise.
get_region_info(lon, lat, file) ==
    IF file = None
    THEN None
    ELSE IF Hits(file.features, lon, lat) = {}
         THEN [found |-> FALSE, coordinates |-> <<lon, lat>>]
         ELSE [found |-> TRUE,
               properties |->
                   Properties(file.features[Least(Hits(file.features, lon, lat))]),
               coordinates |-> <<lon, lat>>]

\* The region of a kind with its corner at <<ax, 0>>: three points on a
\* line; a triangle; a square.
InfoShape(kind, ax) ==
    CASE kind = "line" -> << <<ax, 0>>, <<ax + 1, 0>>, <<ax + 2, 0>> >>
      [] kind = "tri"  -> << <<ax, 0>>, <<ax + 2, 0>>, <<ax, 2>> >>
      [] kind = "box"  -> << <<ax, 0>>, <<ax + 2, 0>>, <<ax, 2>>, <<ax + 2, 2>> >>

\* Lists of regions each one pixel to the right of the one before, so that
\* the polygons of neighbours overlap.
InfoRegionLists ==
    UNION {{[k \in 1..n |-> InfoShape(ks[k], k - 1)] :
               ks \in [1..n -> {"line", "tri", "box"}]} :
              n \in 0..MaxInfoRegions}

\* The longitude and latitude of the point qx / 2, qy / 2 of the image.
QueryLon(qx) ==
    [n |-> CZECH_BOUNDS.west * 2 * RegionsImage.w
           + qx * (CZECH_BOUNDS.east - CZECH_BOUNDS.west),
     d |-> 2 * RegionsImage.w]

QueryLat(qy) ==
    [n |-> CZECH_BOUNDS.north * 2 * RegionsImage.h
           - qy * (CZECH_BOUNDS.north - CZECH_BOUNDS.south),
     d |-> 2 * RegionsImage.h]

InitInfo ==
    /\ rawDir = <<>>
    /\ processedDir = EmptyDir
    /\ geojsonDir = EmptyDir
    /\ kmlDir = EmptyDir
    /\ image_bounds = update_image_bounds(RegionsImage)
    /\ lastRun = NoRun
    /\ streak = "none"
    /\ call \in {[op |-> "regions", regions |-> r] : r \in InfoRegionLists}

\* get_region_info at a point of the half-pixel grid, on the collection
\* regions_to_geojson builds from the regions, or on an unreadable file.
GetRegionInfo(qx, qy, readable) ==
    /\ call.op = "regions"
    /\ \E file \in {IF readable
                    THEN regions_to_geojson(image_bounds, call.regions, 1)
                    ELSE None} :
          call' = [op |-> "get_region_info", regions |-> call.regions,
                   qx |-> qx, qy |-> qy, file |-> file,
                   ret |-> get_region_info(QueryLon(qx), QueryLat(qy), file)]
    /\ UNCHANGED <<rawDir, processedDir, geojsonDir, kmlDir, image_bounds,
                   lastRun, streak>>

NextInfo ==
    \E qx, qy \in 0..QueryMax : \E readable \in BOOLEAN :
        GetRegionInfo(qx, qy, readable)

SpecInfo == InitInfo /\ [][NextInfo]_vars

\* The point p lies strictly inside the convex polygon with these vertices
\* in cyclic order: strictly on the same side of every edge.
StrictlyInside(p, hull) ==
    \/ \A i \in DOMAIN hull : Cross(hull[i], hull[(i % Len(hull)) + 1], p) > 0
    \/ \A i \in DOMAIN hull : Cross(hull[i], hull[(i % Len(hull)) + 1], p) < 0

\* The hull points of a region on the grid of half pixels.
Doubled(points) == [i \in DOMAIN points |-> <<2 * points[i][1], 2 * points[i][2]>>]

\* The regions, by index, whose hull holds the half-pixel point in its
\* interior.
RegionsAround(regions, qx, qy) ==
    {i \in DOMAIN regions :
        /\ ~ ConvexHull(regions[i]).err
        /\ StrictlyInside(<<qx, qy>>, Doubled(ConvexHull(regions[i]).points))}

-----------------------------------------------------------------------------
(* bot.py: the coroutines of run_job on the event loop of the application. *)
(* The job queue and the command handlers run their callbacks as           *)
(* coroutines of one asyncio event loop: a coroutine keeps the loop from   *)
(* the point it is resumed to its next await.  Here call holds the loop:   *)
(* running is the run whose coroutine has the loop (0 for none), pc[r] the *)
(* statement run r executes next, trigger[r] what started it, map[r]       *)
(* whether its create_comparison_map returned a path, path[r] what it      *)
(* returned (processed_map_path).                                          *)

MaxRuns == 2

Runs == 1..MaxRuns

NoLoop ==
    [op |-> "loop", running |-> 0, pc |-> [r \in Runs |-> "idle"],
     trigger |-> [r \in Runs |-> "none"],
     map |-> [r \in Runs |-> FALSE], path |-> [r \in Runs |-> None],
     reply |-> "none"]

\* run_job with an await after download_image as well.
AwaitsAfterDownload(statement) ==
    statement \in {"announce", "download", "report", "send"}

\* The statements of run_job that await: the send_message of line 46, the
\* send_message of lines 55-57 or 65-67, and the sends of lines 59-63.
\* download_image (line 49) and create_comparison_map (line 52) are plain
\* calls.
Awaits(statement) == statement \in {"announce", "report", "send"}

\* The run that takes the next job: the first one not yet started.
FreeRun(loop) == Least({r \in Runs : loop.pc[r] = "idle"})

\* The loop after run r has executed its statement and moves to next.
Advance(loop, r, next) ==
    [loop EXCEPT !.pc[r] = next,
                 !.running = IF Awaits(loop.pc[r]) THEN 0 ELSE r]

\* Run r may execute its statement: it has the loop, or the loop is free
\* and r waits to be started or resumed.
MayStep(loop, r, statement) ==
    /\ loop.op = "loop"
    /\ loop.pc[r] = statement
    /\ loop.running \in {0, r}

InitBot ==
    /\ rawDir = <<>>
    /\ processedDir = EmptyDir
    /\ geojsonDir = EmptyDir
    /\ kmlDir = EmptyDir
    /\ image_bounds = IMAGE_BOUNDS
    /\ lastRun = NoRun
    /\ streak = "none"
    /\ call = NoLoop

\* main, lines 408-414: the daily job comes due and the queue starts run_job.
DailyTrigger ==
    /\ call.running = 0
    /\ \E r \in Runs : call.pc[r] = "idle"
    /\ call' = [call EXCEPT !.pc[FreeRun(call)] = "announce",
                            !.trigger[FreeRun(call)] = "daily"]
    /\ UNCHANGED <<rawDir, processedDir, geojsonDir, kmlDir, image_bounds,
                   lastRun, streak>>

\* run_command: run_job queued to run at once for the admin, a refusal for
\* anyone else.
RunCommand(admin) ==
    /\ call.running = 0
    /\ \E r \in Runs : call.pc[r] = "idle"
    /\ call' = IF admin
               THEN [call EXCEPT !.pc[FreeRun(call)] = "announce",
                                 !.trigger[FreeRun(call)] = "manual",
                                 !.reply = "triggered"]
               ELSE [call EXCEPT !.reply = "refused"]
    /\ UNCHANGED <<rawDir, processedDir, geojsonDir, kmlDir, image_bounds,
                   lastRun, streak>>

\* run_job, line 46: the starting message is sent and awaited.
Announce(r) ==
    /\ MayStep(call, r, "announce")
    /\ call' = Advance(call, r, "download")
    /\ UNCHANGED <<rawDir, processedDir, geojsonDir, kmlDir, image_bounds,
                   lastRun, streak>>

\* run_job, line 49: download_image().
Download(r, netOk, frame) ==
    /\ MayStep(call, r, "download")
    /\ rawDir' = download_image(rawDir, netOk, frame).raw
    /\ call' = Advance(call, r, "process")
    /\ UNCHANGED <<processedDir, geojsonDir, kmlDir, image_bounds, lastRun,
                   streak>>

\* run_job, line 52: create_comparison_map().
Process(r, regions, writeOk) ==
    /\ MayStep(call, r, "process")
    /\ \E c \in {create_comparison_map(rawDir, processedDir, geojsonDir, kmlDir,
                                       image_bounds, regions, writeOk)} :
          /\ processedDir' = c.processed
          /\ geojsonDir' = c.geojson
          /\ kmlDir' = c.kml
          /\ image_bounds' = c.image_bounds
          /\ call' = [Advance(call, r, "report") EXCEPT !.map[r] = c.ret # None,
                                                        !.path[r] = c.ret]
    /\ UNCHANGED <<rawDir, lastRun, streak>>

\* run_job, lines 54-57 and 64-67: the message that the map is being
\* uploaded, or the message of the failure, which ends the job.
Report(r) ==
    /\ MayStep(call, r, "report")
    /\ call' = Advance(call, r, IF call.map[r] THEN "send" ELSE "done")
    /\ UNCHANGED <<rawDir, processedDir, geojsonDir, kmlDir, image_bounds,
                   lastRun, streak>>

\* run_job, lines 59-63: the map and the geographic data are sent, and the
\* job ends; it ends at line 59 when open() finds no file at the path.
Send(r) ==
    /\ MayStep(call, r, "send")
    /\ call' = Advance(call, r, "done")
    /\ UNCHANGED <<rawDir, processedDir, geojsonDir, kmlDir, image_bounds,
                   lastRun, streak>>

NextBot ==
    \/ DailyTrigger
    \/ \E admin \in BOOLEAN : RunCommand(admin)
    \/ \E r \in Runs : Announce(r)
    \/ \E r \in Runs, frame \in Frames : Download(r, TRUE, frame)
    \/ \E r \in Runs : Download(r, FALSE, AnyFrame)
    \/ \E r \in Runs, regions \in RunRegions, writeOk \in BOOLEAN :
          Process(r, regions, writeOk)
    \/ \E r \in Runs : Report(r)
    \/ \E r \in Runs : Send(r)

SpecBot == InitBot /\ [][NextBot]_vars

\* Run r is between its download_image and its create_comparison_map.
MidSection(r) == call.pc[r] = "process"

\* Run r has begun and not ended.
Active(r) == call.pc[r] \in {"announce", "download", "process", "report", "send"}

\* C17: the download-and-process section of one run never interleaves with
\* that of another run, whether started by the daily schedule or by /run:
\* while a run is between its download_image and its create_comparison_map
\* no other run is, so no other run has made either call in between.
C17_SectionsNeverInterleave ==
    \A r, s \in Runs : (MidSection(r) /\ MidSection(s)) => r = s

\* A manual run is inside its section while a scheduled run that has been
\* through its own section has not ended yet.
C17_Witness ==
    \E r, s \in Runs :
        /\ call.trigger[r] = "daily" /\ call.pc[r] = "send"
        /\ call.trigger[s] = "manual" /\ MidSection(s) /\ Active(s)

\* C29: whenever run_job obtains a composite path from
\* create_comparison_map, that file still exists when run_job opens it to
\* send it, under every interleaving with another scheduled or manual run:
\* a run about to execute line 59 finds its processed_map_path in
\* PROCESSED_DIR.
C29_CompositeStillThere ==
    \A r \in Runs :
        call.pc[r] = "send" => call.path[r].path \in DOMAIN processedDir

-----------------------------------------------------------------------------
(* kml_processor.py: the document with its timestamps.  The collection of  *)
(* regions_to_geojson carries datetime.now() in the 'created' property of  *)
(* every feature and in 'processing_timestamp' of the metadata; the        *)
(* pipeline model above leaves both out.  Here they are kept, a time being *)
(* a reading of the clock in 1..MaxClock.                                  *)

MaxClock == 3

Clock == 1..MaxClock

\* Lines 293-305 with the property of line 303.
StampedFeature(feature, now) ==
    [id |-> feature.id, date |-> feature.date,
     area_pixels |-> feature.area_pixels,
     mushroom_probability |-> feature.mushroom_probability,
     coordinates |-> feature.coordinates, created |-> now]

\* The content of the file regions_to_geojson's collection is saved to,
\* built when the clock reads now.
StampedCollection(geojson_data, now) ==
    [features |-> [k \in DOMAIN geojson_data.features |->
                      StampedFeature(geojson_data.features[k], now)],
     metadata |-> [date |-> geojson_data.metadata.date,
                   total_features |-> geojson_data.metadata.total_features,
                   processing_timestamp |-> now]]

\* The 'Generated' line written from the clock alone.
GeneratedNow(metadata, now) == now

\* Line 159: metadata.get('processing_timestamp', datetime.now().isoformat()).
Generated(metadata, now) ==
    IF "processing_timestamp" \in DOMAIN metadata
    THEN metadata.processing_timestamp
    ELSE now

\* Line 75: props.get('created', 'Unknown'), 0 standing for 'Unknown'.
Created(feature) ==
    IF "created" \in DOMAIN feature THEN feature.created ELSE 0

\* Lines 68-93: the placemark with the 'Created' row of its table.
StampedPlacemark(feature, feature_id) ==
    [placemark |-> create_kml_placemark(feature, feature_id),
     created |-> Created(feature)]

\* geojson_to_kml on the content of a file when the clock reads now: the
\* document with its 'Generated' line, the styles in the order of
\* KML_STYLES, the placemarks in the order of the features.
KmlDocument(geojson_data, now) ==
    [name |-> geojson_to_kml(geojson_data).name,
     total |-> geojson_to_kml(geojson_data).total,
     generated |-> Generated(geojson_data.metadata, now),
     styles |-> geojson_to_kml(geojson_data).styles,
     placemarks |-> [i \in DOMAIN geojson_data.features |->
                        StampedPlacemark(geojson_data.features[i], i - 1)]]

InitKml ==
    /\ rawDir = <<>>
    /\ processedDir = EmptyDir
    /\ geojsonDir = EmptyDir
    /\ kmlDir = EmptyDir
    /\ image_bounds = update_image_bounds(RegionsImage)
    /\ lastRun = NoRun
    /\ streak = "none"
    /\ call \in {[op |-> "regions", regions |-> r] : r \in InfoRegionLists}

\* process_image_to_geojson, lines 355-364: the collection of the regions
\* saved with the timestamps of the moment.
WriteCollection(now) ==
    /\ call.op = "regions"
    /\ call' = [op |-> "collection", written |-> now,
                file |-> StampedCollection(
                             regions_to_geojson(image_bounds, call.regions, 1), now)]
    /\ UNCHANGED <<rawDir, processedDir, geojsonDir, kmlDir, image_bounds,
                   lastRun, streak>>

\* geojson_to_kml on the saved collection.
GeojsonToKml(now) ==
    /\ call.op = "collection"
    /\ call' = [op |-> "kml", file |-> call.file, written |-> call.written,
                at |-> now, document |-> KmlDocument(call.file, now)]
    /\ UNCHANGED <<rawDir, processedDir, geojsonDir, kmlDir, image_bounds,
                   lastRun, streak>>

\* geojson_to_kml on the same content once more.
GeojsonToKmlAgain(now) ==
    /\ call.op = "kml"
    /\ call' = [op |-> "kml_again", file |-> call.file,
                written |-> call.written, first_at |-> call.at,
                first |-> call.document, at |-> now,
                document |-> KmlDocument(call.file, now)]
    /\ UNCHANGED <<rawDir, processedDir, geojsonDir, kmlDir, image_bounds,
                   lastRun, streak>>

NextKml ==
    \/ \E now \in Clock : WriteCollection(now)
    \/ \E now \in Clock : GeojsonToKml(now)
    \/ \E now \in Clock : GeojsonToKmlAgain(now)

SpecKml == InitKml /\ [][NextKml]_vars

\* C19: two executions of geojson_to_kml on the same feature-collection
\* content produce identical documents, with the style blocks and the
\* placemarks in the same order.
C19_KmlDeterministic ==
    call.op = "kml_again" =>
        /\ call.document = call.first
        /\ call.document.styles = call.first.styles
        /\ \A i \in DOMAIN call.file.features :
              call.document.placemarks[i].placemark.description.id
                 = call.file.features[i].id

\* Two executions at different times, both later than the time the
\* collection was written, on a collection of two features.
C19_Witness ==
    /\ call.op = "kml_again"
    /\ call.first_at # call.at
    /\ call.written # call.at
    /\ Len(call.file.features) = 2
    /\ Len(call.document.placemarks) = 2

-----------------------------------------------------------------------------
(* create_comparison_map on the files of the raw directory: which frames   *)
(* enter the composite, and in which order.  A raw file is its date        *)
(* (0: the name has the form image_dd.mm.yyyy.png but is no calendar date, *)
(* as the date read off the image may be) and its one-pixel image; the     *)
(* directory is the sequence of its files in order of modification time.   *)

MaxWinDate == 5

\* One file more than there are weights.
MaxWinFiles == Len(IMAGE_WEIGHTS) + 1

WinFiles ==
    {[date |-> d, image |-> <<p>>] :
        d \in 0..MaxWinDate, p \in {VERY_HIGH_PROB_RGB, <<255, 255, 255>>}}

\* The sequences of 1..n files with different names.
WinDirs ==
    UNION {{raw \in [1..n -> WinFiles] :
               \A i, j \in 1..n : raw[i].date = raw[j].date => i = j} :
              n \in 1..MaxWinFiles}

\* Lines 195-203: the files whose date parses.
DatedFiles(raw) == SelectSeq(raw, LAMBDA f : f.date # 0)

\* s back to front.
Reversed(s) == [i \in DOMAIN s |-> s[Len(s) + 1 - i]]

\* The dated files ordered by modification time, newest first.
raw_files_by_mtime(raw) == Reversed(DatedFiles(raw))

\* Line 210: the dated files sorted by date, newest first.
raw_files_sorted(raw) == SortNewestFirst(Range(DatedFiles(raw)))

\* The images of the files.
ImagesOf(files) == [i \in DOMAIN files |-> files[i].image]

\* Lines 195-288 with no processed file of the latest date in place: None
\* without a dated file, else the composite of the sorted files.
ComparisonOf(sorted) ==
    IF sorted = <<>>
    THEN [ret |-> None, sorted |-> sorted]
    ELSE [ret |-> [path |-> sorted[1].date], sorted |-> sorted,
          map |-> Composite(ImagesOf(sorted))]

InitWindow ==
    /\ rawDir = <<>>
    /\ processedDir = EmptyDir
    /\ geojsonDir = EmptyDir
    /\ kmlDir = EmptyDir
    /\ image_bounds = IMAGE_BOUNDS
    /\ lastRun = NoRun
    /\ streak = "none"
    /\ call \in {[op |-> "raw_files", raw |-> raw] : raw \in WinDirs}

\* create_comparison_map on the raw files.
CreateComparisonMap ==
    /\ call.op = "raw_files"
    /\ call' = [op |-> "create_comparison_map", raw |-> call.raw,
                out |-> ComparisonOf(raw_files_sorted(call.raw))]
    /\ UNCHANGED <<rawDir, processedDir, geojsonDir, kmlDir, image_bounds,
                   lastRun, streak>>

NextWindow == CreateComparisonMap

SpecWindow == InitWindow /\ [][NextWindow]_vars

\* The dated files of raw.
Dated(raw) == {f \in Range(raw) : f.date # 0}

\* The file of S with n - 1 files of a later date: the n-th newest.
NthNewest(S, n) ==
    CHOOSE f \in S : Cardinality({g \in S : g.date > f.date}) = n - 1

\* The weights, in tenths, of the ranks up to n at which the n-th newest
\* file of S is very-high.
TenthsOf(S, n) ==
    {k \in 1..n : NthNewest(S, k).image[1] = VERY_HIGH_PROB_RGB}

RECURSIVE SumOfWeights(_)
SumOfWeights(K) ==
    IF K = {} THEN 0
    ELSE IMAGE_WEIGHTS[MaxOf(K)] + SumOfWeights(K \ {MaxOf(K)})

\* The smaller of two numbers.
Lesser(a, b) == IF a < b THEN a ELSE b

\* C25: create_comparison_map orders the raw frames by the date in their
\* name, newest first, whatever their modification times, and leaves out
\* the files without a valid date: the newest frame is the base frame, the
\* i-th newest is accumulated with weight IMAGE_WEIGHTS[i], frames beyond
\* the first len(IMAGE_WEIGHTS) have no effect, and with fewer frames than
\* weights only those there are are used.
C25_WindowByDate ==
    call.op = "create_comparison_map" =>
        /\ (call.out.ret = None) <=> (Dated(call.raw) = {})
        /\ Dated(call.raw) # {} =>
              /\ Len(call.out.sorted) = Cardinality(Dated(call.raw))
              /\ \A n \in DOMAIN call.out.sorted :
                    call.out.sorted[n] = NthNewest(Dated(call.raw), n)
        /\ Cardinality(Dated(call.raw)) = 1 =>
              call.out.map.image = NthNewest(Dated(call.raw), 1).image
        /\ Cardinality(Dated(call.raw)) > 1 =>
              /\ Distance(call.out.map.very_high[1],
                          SumOfWeights(
                              TenthsOf(Dated(call.raw),
                                       Lesser(Cardinality(Dated(call.raw)),
                                              Len(IMAGE_WEIGHTS))))
                             * (One \div 10)) <= 320
              /\ call.out.map.very_high[1] <= 7 * (One \div 10) =>
                    call.out.map.image[1] =
                        [c \in 1..3 |->
                            Darkened(NthNewest(Dated(call.raw), 1).image[1][c],
                                     call.out.map.darken[1])]

\* Five dated files whose modification times run against their dates, the
\* oldest by date very-high and beyond the window; the newest by date, the
\* first written, is the base frame.
C25_Witness ==
    /\ call.op = "create_comparison_map"
    /\ Len(call.raw) = 5
    /\ \A i \in 1..5 : call.raw[i].date = 6 - i
    /\ call.raw[5].image[1] = VERY_HIGH_PROB_RGB
    /\ \A i \in 1..4 : call.raw[i].image[1] = <<255, 255, 255>>
    /\ call.out.sorted[1] = call.raw[1]
    /\ call.out.map.very_high[1] = 0
    /\ call.out.map.image[1] = <<255, 255, 255>>

-----------------------------------------------------------------------------
(* GeoProcessor.extract_highlighted_regions on an image of one row of      *)
(* pixels.  np.array(image) is an array of uint8: arithmetic between it    *)
(* and a Python int stays in uint8 and wraps around at 256.                *)

MIN_FEATURE_AREA == 400

MaxStripes == 2

\* Line 106: r < 50, g < 50 and b > 200.
blue_mask(img_array) ==
    [i \in DOMAIN img_array |->
        img_array[i][1] < 50 /\ img_array[i][2] < 50 /\ img_array[i][3] > 200]

\* uint8 a + 100.
AddU8(a, n) == (a + n) % 256

\* Lines 111-112: b > r + 100 and b > g + 100, the sums in uint8.
blue_dominant_mask(img_array) ==
    [i \in DOMAIN img_array |->
        /\ img_array[i][3] > AddU8(img_array[i][1], 100)
        /\ img_array[i][3] > AddU8(img_array[i][2], 100)]

\* Lines 118-119: the mean of the three channels is below 150.
dark_mask(img_array) ==
    [i \in DOMAIN img_array |->
        img_array[i][1] + img_array[i][2] + img_array[i][3] < 3 * 150]

\* np.abs(a - b) on int64.
AbsDiff(a, b) == IF a >= b THEN a - b ELSE b - a

\* Lines 124-132: every channel within 30 of one of the class colours.
green_mask(img_array) ==
    [i \in DOMAIN img_array |->
        \/ \A c \in 1..3 : AbsDiff(img_array[i][c], HIGH_PROB_RGB[c]) <= 30
        \/ \A c \in 1..3 : AbsDiff(img_array[i][c], VERY_HIGH_PROB_RGB[c]) <= 30]

\* np.sum(mask) > 0.
AnySet(mask) == \E i \in DOMAIN mask : mask[i]

\* Lines 144-158: the mask used, none when every count is 0.
final_mask(img_array) ==
    IF AnySet(blue_mask(img_array))
    THEN [method |-> "blue", mask |-> blue_mask(img_array)]
    ELSE IF AnySet(blue_dominant_mask(img_array))
    THEN [method |-> "blue_dominant", mask |-> blue_dominant_mask(img_array)]
    ELSE IF AnySet(green_mask(img_array))
    THEN [method |-> "green", mask |-> green_mask(img_array)]
    ELSE IF AnySet(dark_mask(img_array))
    THEN [method |-> "dark", mask |-> dark_mask(img_array)]
    ELSE [method |-> "none"]

\* Lines 168-169: the pixels (x, y) of the component at columns a..b of
\* row 0, x from 0.
region_pixels(a, b) == [k \in 1..(b - a + 1) |-> <<a + k - 2, 0>>]

\* The columns at which a run of set pixels begins, and those at which
\* one ends.
RunStarts(mask) ==
    {i \in DOMAIN mask : mask[i] /\ (i = 1 \/ ~ mask[i - 1])}

RunEnds(mask) ==
    {i \in DOMAIN mask : mask[i] /\ (i = Len(mask) \/ ~ mask[i + 1])}

\* The components from the sorted starts and ends of the runs.
Components(starts, ends) ==
    [k \in DOMAIN starts |-> region_pixels(starts[k], ends[k])]

\* ndimage.label on one row: the components are the maximal runs of set
\* pixels, numbered from the left.
Label(mask) == Components(SortedSeq(RunStarts(mask)), SortedSeq(RunEnds(mask)))

\* Line 174: max(MIN_FEATURE_AREA // 10, 10).
min_area == IF MIN_FEATURE_AREA \div 10 > 10 THEN MIN_FEATURE_AREA \div 10 ELSE 10

\* Lines 166-180: the components of at least min_area pixels.
Accepted(components) == SelectSeq(components, LAMBDA r : Len(r) >= min_area)

\* extract_highlighted_regions.
extract_highlighted_regions(img_array) ==
    IF final_mask(img_array).method = "none"
    THEN [method |-> "none", regions |-> <<>>]
    ELSE [method |-> final_mask(img_array).method,
          regions |-> Accepted(Label(final_mask(img_array).mask))]

\* The colours of a stripe: the highlight colour, a blue that dominates red
\* and green by more than 100, a class colour, a dark grey, white.
StripeColours ==
    {HIGHLIGHT_COLOR, <<100, 100, 250>>, HIGH_PROB_RGB, <<100, 100, 100>>,
     <<255, 255, 255>>}

\* Stripe widths around min_area, and MIN_FEATURE_AREA.
StripeWidths == {min_area - 1, min_area, MIN_FEATURE_AREA}

Stripe(colour, width) == [k \in 1..width |-> colour]

RECURSIVE Stripes(_)
Stripes(n) ==
    IF n = 0 THEN {<<>>}
    ELSE {Stripe(c, w) \o rest :
             c \in StripeColours, w \in StripeWidths, rest \in Stripes(n - 1)}

\* Images of one row made of 1..MaxStripes stripes.
StripeImages == UNION {Stripes(n) : n \in 1..MaxStripes}

InitExtract ==
    /\ rawDir = <<>>
    /\ processedDir = EmptyDir
    /\ geojsonDir = EmptyDir
    /\ kmlDir = EmptyDir
    /\ image_bounds = IMAGE_BOUNDS
    /\ lastRun = NoRun
    /\ streak = "none"
    /\ call \in {[op |-> "image", image |-> img] : img \in StripeImages}

ExtractHighlightedRegions ==
    /\ call.op = "image"
    /\ call' = [op |-> "extract_highlighted_regions", image |-> call.image,
                ret |-> extract_highlighted_regions(call.image)]
    /\ UNCHANGED <<rawDir, processedDir, geojsonDir, kmlDir, image_bounds,
                   lastRun, streak>>

NextExtract == ExtractHighlightedRegions

SpecExtract == InitExtract /\ [][NextExtract]_vars

\* The four strategies as they are described: (a) the highlight colour,
\* (b) blue above red and above green by more than 100, (c) a class colour
\* within 30 per channel, (d) darker than the grey level 150.
Matches(strategy, pixel) ==
    CASE strategy = 1 -> pixel[1] < 50 /\ pixel[2] < 50 /\ pixel[3] > 200
      [] strategy = 2 -> pixel[3] > pixel[1] + 100 /\ pixel[3] > pixel[2] + 100
      [] strategy = 3 ->
            \/ \A c \in 1..3 : AbsDiff(pixel[c], HIGH_PROB_RGB[c]) <= 30
            \/ \A c \in 1..3 : AbsDiff(pixel[c], VERY_HIGH_PROB_RGB[c]) <= 30
      [] strategy = 4 -> pixel[1] + pixel[2] + pixel[3] < 450

\* The strategies with a matching pixel in the image.
Matching(image) ==
    {st \in 1..4 : \E i \in DOMAIN image : Matches(st, image[i])}

\* The pixels of the regions.
PixelsOf(regions) == UNION {Range(regions[k]) : k \in DOMAIN regions}

\* C26: extract_highlighted_regions uses one mask, the first in the order
\* highlight colour, blue-dominant, class colours, darkness that has a
\* matching pixel, however many pixels the later strategies match: every
\* pixel of every region matches that strategy; without any match the
\* result is the empty list.
C26_FirstMatchingStrategy ==
    call.op = "extract_highlighted_regions" =>
        IF Matching(call.image) = {}
        THEN call.ret.regions = <<>>
        ELSE \A p \in PixelsOf(call.ret.regions) :
                Matches(Least(Matching(call.image)), call.image[p[1] + 1])

\* C27: extract_highlighted_regions discards every connected component of
\* fewer than MIN_FEATURE_AREA pixels, so every region returned has at
\* least MIN_FEATURE_AREA pixels.
C27_RegionsAtLeastMinArea ==
    call.op = "extract_highlighted_regions" =>
        \A k \in DOMAIN call.ret.regions :
            Len(call.ret.regions[k]) >= MIN_FEATURE_AREA

-----------------------------------------------------------------------------
(* cluster_regions on more than 3 regions.  The regions here are single    *)
(* pixels of one row, 20 columns apart where they are neighbours: with     *)
(* eps = 30 a pixel has the pixels 20 columns to its left and right as     *)
(* neighbours, and with min_samples = 3 it is a core point when both are   *)
(* there.                                                                  *)

MaxSlot == 5

MaxPooled == 5

\* The region made of the pixel at the slot.
SlotRegion(slot) == << <<20 * slot, 0>> >>

\* Lists of 4..MaxPooled regions at different slots, in any order.
SlotRegionLists ==
    UNION {{[k \in 1..n |-> SlotRegion(slots[k])] :
               slots \in {f \in [1..n -> 0..MaxSlot] :
                             \A i, j \in 1..n : f[i] = f[j] => i = j}} :
              n \in 4..MaxPooled}

InitCluster ==
    /\ rawDir = <<>>
    /\ processedDir = EmptyDir
    /\ geojsonDir = EmptyDir
    /\ kmlDir = EmptyDir
    /\ image_bounds = IMAGE_BOUNDS
    /\ lastRun = NoRun
    /\ streak = "none"
    /\ call \in {[op |-> "regions", regions |-> r] : r \in SlotRegionLists}

\* cluster_regions with the arguments of line 353 on the pooled regions.
ClusterPooled ==
    /\ call.op = "regions"
    /\ call' = [op |-> "cluster_regions", regions |-> call.regions,
                ret |-> cluster_regions(call.regions, Eps, MinSamples)]
    /\ UNCHANGED <<rawDir, processedDir, geojsonDir, kmlDir, image_bounds,
                   lastRun, streak>>

NextCluster == ClusterPooled

SpecCluster == InitCluster /\ [][NextCluster]_vars

\* The points of all the regions.
Pooled(regions) == UNION {Range(regions[k]) : k \in DOMAIN regions}

\* p and q are within eps of each other.
Near2(p, q) ==
    (p[1] - q[1]) * (p[1] - q[1]) + (p[2] - q[2]) * (p[2] - q[2]) <= Eps * Eps

\* p has at least min_samples points of P within eps, itself included.
Core(P, p) == Cardinality({q \in P : Near2(p, q)}) >= MinSamples

\* The core points that p is joined to by a chain of core points, each
\* within eps of the next; T holds those found so far.
RECURSIVE Chained(_, _)
Chained(P, T) ==
    IF {q \in P : Core(P, q) /\ \E t \in T : Near2(t, q)} \subseteq T
    THEN T
    ELSE Chained(P, T \cup {q \in P : Core(P, q) /\ \E t \in T : Near2(t, q)})

\* The density rule puts p and q under one label: both are core points
\* joined by a chain of core points, or one is a core point and the other
\* a point within eps of its chain, or both are points within eps of one
\* chain.
SameLabel(P, p, q) ==
    \E c \in {x \in P : Core(P, x)} :
        /\ \E t \in Chained(P, {c}) : Near2(t, p)
        /\ \E t \in Chained(P, {c}) : Near2(t, q)

\* The density rule labels p noise: no core point is within eps of it.
Noise(P, p) == ~ \E c \in P : Core(P, c) /\ Near2(c, p)

C28_WitnessNone ==
    /\ call.op = "cluster_regions"
    /\ Len(call.regions) = 4
    /\ call.ret = <<>>

-----------------------------------------------------------------------------
(* process_image_to_geojson on images of several sizes, the region found   *)
(* in an image reaching to its edges: three pixels out of the corners, the *)
(* edge midpoints and the centre of the image.                             *)

BoxWidths == {8, 354, 700}

BoxHeights == {3, 582, 1161}

BoxImages ==
    {[w |-> w, h |-> h, dx |-> 0, dy |-> 0] : w \in BoxWidths, h \in BoxHeights}

\* Pixel i of 9 of the image: column 0, w \div 2 or w - 1, row 0, h \div 2
\* or h - 1.
EdgePixel(image, i) ==
    << CASE (i - 1) % 3 = 0 -> 0
         [] (i - 1) % 3 = 1 -> image.w \div 2
         [] (i - 1) % 3 = 2 -> image.w - 1,
       CASE (i - 1) \div 3 = 0 -> 0
         [] (i - 1) \div 3 = 1 -> image.h \div 2
         [] (i - 1) \div 3 = 2 -> image.h - 1 >>

\* The regions of three such pixels.
EdgeRegions(image) ==
    {<<EdgePixel(image, i), EdgePixel(image, j), EdgePixel(image, k)>> :
        <<i, j, k>> \in {t \in (1..9) \X (1..9) \X (1..9) :
                            t[1] < t[2] /\ t[2] < t[3]}}

InitBox ==
    /\ rawDir = <<>>
    /\ processedDir = EmptyDir
    /\ geojsonDir = EmptyDir
    /\ kmlDir = EmptyDir
    /\ image_bounds = IMAGE_BOUNDS
    /\ lastRun = NoRun
    /\ streak = "none"
    /\ call \in {[op |-> "image", image |-> image, regions |-> <<region>>] :
                    image \in BoxImages,
                    region \in UNION {EdgeRegions(im) : im \in BoxImages}}
    /\ call.regions[1] \in EdgeRegions(call.image)

\* GeoProcessor.process_image_to_geojson on the image.
ProcessEdgeImage(writeOk) ==
    /\ call.op = "image"
    /\ \E r \in {process_image_to_geojson(geojsonDir, kmlDir, call.image,
                                          call.regions, 1, writeOk)} :
          /\ geojsonDir' = r.geojson
          /\ kmlDir' = r.kml
          /\ image_bounds' = r.image_bounds
          /\ call' = [op |-> "process_image_to_geojson", image |-> call.image,
                      regions |-> call.regions, writeOk |-> writeOk,
                      ret |-> r.ret]
    /\ UNCHANGED <<rawDir, processedDir, lastRun, streak>>

NextBox == \E writeOk \in BOOLEAN : ProcessEdgeImage(writeOk)

SpecBox == InitBox /\ [][NextBox]_vars

\* The pair <<lon, lat>> of rationals lies inside CZECH_BOUNDS.
InsideBox(pair) ==
    /\ CZECH_BOUNDS.west * pair[1].d <= pair[1].n
    /\ pair[1].n <= CZECH_BOUNDS.east * pair[1].d
    /\ CZECH_BOUNDS.south * pair[2].d <= pair[2].n
    /\ pair[2].n <= CZECH_BOUNDS.north * pair[2].d

\* C30: every coordinate pair of every feature produced by
\* process_image_to_geojson lies inside the geographic bounding box:
\* west <= lon <= east and south <= lat <= north.
C30_CoordinatesInsideBox ==
    \A d \in DOMAIN geojsonDir :
        \A k \in DOMAIN geojsonDir[d].features :
            \A i \in DOMAIN geojsonDir[d].features[k].coordinates :
                InsideBox(geojsonDir[d].features[k].coordinates[i])

\* The feature of a region with the bottom right pixel of the largest
\* image: its vertex lies less than a pixel from the east and south edges.
C30_Witness ==
    /\ call.op = "process_image_to_geojson"
    /\ call.image.w = 700 /\ call.image.h = 1161
    /\ 1 \in DOMAIN geojsonDir
    /\ Len(geojsonDir[1].features) = 1
    /\ \E i \in DOMAIN geojsonDir[1].features[1].coordinates :
          /\ geojsonDir[1].features[1].coordinates[i][1]
                = [n |-> CZECH_BOUNDS.west * 700
                         + 699 * (CZECH_BOUNDS.east - CZECH_BOUNDS.west),
                   d |-> 700]
          /\ geojsonDir[1].features[1].coordinates[i][2]
                = [n |-> CZECH_BOUNDS.north * 1161
                         - 1160 * (CZECH_BOUNDS.north - CZECH_BOUNDS.south),
                   d |-> 1161]


=============================================================================
